---------------------------- MODULE Spec2Model ----------------------------
(***************************************************************************)
(* Blackjack over TCP with UDP discovery: the wire codec                   *)
(* (src/common/protocol.py), the scoring rules (src/common/rules.py), the  *)
(* card source (src/common/cards.py), the server's round engine            *)
(* (src/server/session.py) and the client's round driver                   *)
(* (src/client/main.py).                                                   *)
(*                                                                         *)
(* Conventions.  A bytes object is a sequence of integers 0..255.  A str   *)
(* is a sequence of Unicode code points.  A call that raises ProtocolError *)
(* yields Raise; a call that returns v yields Return(v).  TLC's integers   *)
(* are 32 bits wide and signed, so the unsigned 32-bit magic cookie is     *)
(* held as the four bytes struct's "!I" gives it; "!I" is a bijection      *)
(* between 0..2^32-1 and those byte strings, so comparing the bytes is     *)
(* comparing the integers.                                                 *)
(***************************************************************************)
EXTENDS Integers, Sequences, FiniteSets, TLC

VARIABLES
    \* the codec harness: one build or forged buffer, then one parse
    cstage,     \* "idle" | "have" | "raised" | "parsed"
    msg,        \* which message the buffer was made as
    origin,     \* "built" by build_*, or "forged" from raw field values
    args,       \* the arguments given to build_* (or the raw forged fields)
    wire,       \* what build_* returned or raised
    data,       \* the buffer handed to parse_*
    resized,    \* whether data was cut or extended after it was made
    fn,         \* which parse_* was applied to data
    parsed,     \* what parse_* returned or raised
    \* the rules harness: one hand, then its score
    rstage,     \* "dealing" | "scored"
    rhand,      \* the hand, a list of Card
    rvalue,     \* hand_value(rhand)
    rbust,      \* is_bust(rhand)
    rhit,       \* dealer_should_hit(rhand)
    \* the deck harness: one Deck, drawn from again and again
    dk_cards,   \* self._cards, the end of the list last
    dk_inits,   \* how many times __init__ has run
    dk_out,     \* the cards draw has returned since __init__ last ran
    dk_last,    \* what draw returned last
    \* the connection of one session
    c2s,        \* messages sent by the client, not yet read by the server
    s2c,        \* messages sent by the server, not yet read by the client
    s2c_round,  \* for each message of s2c, the server's round that sent it
    c_closed,   \* the client's socket is closed
    s_closed,   \* the server has closed conn
    \* the server: handle_client and play_one_round
    spc,        \* where the server is
    req_rounds, \* req.rounds
    round_i,    \* i of "for i in range(req.rounds)"
    deck,       \* deck._cards
    player,     \* play_one_round's player
    dealer,     \* play_one_round's dealer
    last_sent,  \* play_one_round's last_sent
    round_result, \* what play_one_round returned last
    out_log,    \* the packets logged "OUT" since the round began
    in_log,     \* the decisions logged "IN" since the round began
    s_err,      \* the exception handle_client caught, "none" if none
    \* the client: main
    cpc,        \* where the client is
    c_rounds,   \* rounds
    c_r,        \* r of "for r in range(rounds)"
    c_player,   \* the client's player
    c_dealer,   \* the client's dealer
    final_result,
    c_sent,     \* how many Decisions a peer that is not this client has sent
    c_in,       \* the messages the client has read in its current round
    c_out,      \* the Decisions the client has sent in its current round
    f_sent,     \* how many messages a server that is not this repository's has sent
    \* the server process: the accept loop and its session threads
    th,         \* for each connection, its thread's locals and its socket
    accepting,  \* the accept loop of server/main.py is running
    \* the advertiser: broadcast_offers in its thread
    bpc,        \* where broadcast_offers is
    b_ifaces,   \* ifaces
    b_chosen,   \* chosen
    stop_event, \* stop_event.is_set()
    b_sends,    \* the outcomes of the sendto calls, in order
    b_left,     \* ticks left of the wait of line 101
    b_raised,   \* an exception has left broadcast_offers
    b_after,    \* how many sendto calls were made with the stop signal set
    \* the collector: collect_offers
    dpc,        \* where collect_offers is
    d_max,      \* max_offers
    d_time,     \* time.time() since line 25, in recvfrom timeouts (0.2 s)
    d_offers,   \* offers, in insertion order
    d_recv,     \* the datagrams recvfrom has returned, in order
    d_ret,      \* the list returned
    \* listen_for_offer
    lpc,        \* where listen_for_offer is
    l_time,     \* time since the call, in ticks
    l_wait,     \* time the current recvfrom has waited, in ticks
    l_recv,     \* the datagrams recvfrom has returned, in order
    l_ret,      \* what the function returned
    \* recv_exact
    xpc,        \* where recv_exact is
    x_n,        \* n
    x_orig,     \* the bytes the peer has sent, in order
    x_stream,   \* those of them not yet read
    x_closed,   \* the peer closes after them
    x_chunks,   \* chunks
    x_remaining,\* remaining
    x_asked,    \* the sizes passed to sock.recv, in order
    x_ret,      \* the bytes returned
    \* the rounds of one session on the program's deck of 52 cards
    hpc,        \* where play_one_round is
    h_deck,     \* deck._cards
    h_inits,    \* how many times Deck.__init__ has run
    h_round,    \* i of handle_client's for statement
    h_player,   \* player
    h_dealer    \* dealer

codecVars == <<cstage, msg, origin, args, wire, data, resized, fn, parsed>>
rulesVars == <<rstage, rhand, rvalue, rbust, rhit>>
deckVars == <<dk_cards, dk_inits, dk_out, dk_last>>
connVars == <<c2s, s2c, s2c_round, c_closed, s_closed>>
serverVars == <<spc, req_rounds, round_i, deck, player, dealer, last_sent,
                round_result,
                out_log, in_log, s_err>>
clientVars == <<cpc, c_rounds, c_r, c_player, c_dealer, final_result, c_sent,
                c_in, c_out>>
sessionVars == <<connVars, serverVars, clientVars>>
srvVars == <<th, accepting>>
bcastVars == <<bpc, b_ifaces, b_chosen, stop_event, b_sends, b_left, b_raised, b_after>>
discVars == <<dpc, d_max, d_time, d_offers, d_recv, d_ret>>
listenVars == <<lpc, l_time, l_wait, l_recv, l_ret>>
rxVars == <<xpc, x_n, x_orig, x_stream, x_closed, x_chunks, x_remaining, x_asked, x_ret>>
hVars == <<hpc, h_deck, h_inits, h_round, h_player, h_dealer>>
lateVars == <<listenVars, rxVars, hVars>>
moreVars == <<bcastVars, discVars, f_sent, lateVars>>
vars == <<codecVars, rulesVars, deckVars, sessionVars, srvVars, moreVars>>

---------------------------------------------------------------------------
(* Bounds *)

\* longest tail of arbitrary characters appended to a name
MaxTail == 2
\* most bytes a buffer is extended by
MaxExtra == 1
\* most cards in a hand given to the scoring rules
MaxHand == 3
\* most rounds a client asks for
MaxRounds == 3
\* most Decisions sent by a peer that is not this repository's client
MaxPeerMsgs == 2
\* most runs of Deck.__init__ on one Deck
MaxInits == 2
\* most sendto calls of the advertiser
MaxSends == 3
\* the wait of stop_event.wait(1.0), in ticks
WaitTicks == 2
\* datagrams recvfrom returns within one window
MaxDatagrams == 3
\* window_sec, in recvfrom timeouts
WindowTicks == 2
\* timeout_sec of listen_for_offer, in ticks
TimeoutTicks == 2
\* the sizes recv_exact is asked for, and the bytes the peer sends
MaxN == 3
MaxStream == 5
\* req.rounds of the sessions played on the whole deck
MaxDeckRounds == 12
\* most messages a server that is not this repository's sends to the client
MaxForeignMsgs == 6
\* most frames the peers of the server of several sessions write, together
MaxFrames == 3

---------------------------------------------------------------------------
(* src/common/constants.py *)

MAGIC_COOKIE == <<171, 205, 220, 186>>      \* 0xabcddcba, big-endian
TYPE_OFFER == 2
TYPE_REQUEST == 3
TYPE_PAYLOAD == 4
NAME_LEN == 32
DECISION_LEN == 5
OFFER_LEN == 4 + 1 + 2 + NAME_LEN
REQUEST_LEN == 4 + 1 + 1 + NAME_LEN
PAYLOAD_CLIENT_LEN == 4 + 1 + DECISION_LEN
PAYLOAD_SERVER_LEN == 4 + 1 + 1 + 3
RESULT_NOT_OVER == 0
RESULT_TIE == 1
RESULT_LOSS == 2
RESULT_WIN == 3
VALID_RESULTS == {RESULT_NOT_OVER, RESULT_TIE, RESULT_LOSS, RESULT_WIN}
SUIT_TO_CODE == [s \in {"H", "D", "C", "S"} |->
                    CASE s = "H" -> 0 [] s = "D" -> 1 [] s = "C" -> 2 [] s = "S" -> 3]
CODE_TO_SUIT == [c \in {SUIT_TO_CODE[s] : s \in DOMAIN SUIT_TO_CODE} |->
                    CHOOSE s \in DOMAIN SUIT_TO_CODE : SUIT_TO_CODE[s] = c]
Hittt == <<72, 105, 116, 116, 116>>         \* "Hittt"
Stand == <<83, 116, 97, 110, 100>>          \* "Stand"
VALID_DECISIONS == {Hittt, Stand}

---------------------------------------------------------------------------
(* Python and struct primitives used by the codec *)

Return(v) == [ok |-> TRUE, val |-> v]
Raise == [ok |-> FALSE, err |-> "ProtocolError"]

\* struct.pack("!B"), ("!H"): big-endian unsigned
PackU8(x) == <<x>>
PackU16(x) == <<x \div 256, x % 256>>
\* struct.unpack("!H") of two bytes
UnpackU16(b) == b[1] * 256 + b[2]

RECURSIVE Repeat(_, _)
Repeat(x, n) == IF n <= 0 THEN <<>> ELSE <<x>> \o Repeat(x, n - 1)

\* b[:n]
Take(b, n) == SubSeq(b, 1, IF n < Len(b) THEN n ELSE Len(b))
\* b[n:]
Drop(b, n) == SubSeq(b, n + 1, Len(b))
\* b.ljust(n, b"\x00")
LjustZero(b, n) == b \o Repeat(0, n - Len(b))

\* struct.pack("<n>s"): the bytes cut to n or zero-padded to n
PackS(b, n) == LjustZero(Take(b, n), n)

\* one code point under str.encode("utf-8", errors="ignore"): a lone
\* surrogate (U+D800..U+DFFF) cannot be encoded and is dropped
EncodeUtf8Char(cp) ==
    IF cp < 128 THEN <<cp>>
    ELSE IF cp < 2048 THEN <<192 + (cp \div 64), 128 + (cp % 64)>>
    ELSE IF cp >= 55296 /\ cp <= 57343 THEN <<>>
    ELSE IF cp < 65536
         THEN <<224 + (cp \div 4096), 128 + ((cp \div 64) % 64), 128 + (cp % 64)>>
    ELSE <<240 + (cp \div 262144), 128 + ((cp \div 4096) % 64),
           128 + ((cp \div 64) % 64), 128 + (cp % 64)>>

RECURSIVE EncodeUtf8(_)
EncodeUtf8(s) ==
    IF s = <<>> THEN <<>> ELSE EncodeUtf8Char(Head(s)) \o EncodeUtf8(Tail(s))

IsCont(b, i) == i <= Len(b) /\ b[i] >= 128 /\ b[i] <= 191
InRange(b, i, lo, hi) == i <= Len(b) /\ b[i] >= lo /\ b[i] <= hi
REPLACEMENT == 65533                        \* U+FFFD

\* bytes.decode("utf-8", errors="replace"): the decoded code point (or
\* U+FFFD) at the head of b and the number of bytes it consumes.  An
\* ill-formed sequence is replaced up to its maximal well-formed prefix.
DecodeUtf8Step(b) ==
    LET b1 == b[1] IN
    IF b1 < 128 THEN <<b1, 1>>
    ELSE IF b1 >= 194 /\ b1 <= 223 THEN
        IF IsCont(b, 2) THEN <<(b1 - 192) * 64 + (b[2] - 128), 2>>
        ELSE <<REPLACEMENT, 1>>
    ELSE IF b1 >= 224 /\ b1 <= 239 THEN
        LET lo == IF b1 = 224 THEN 160 ELSE 128
            hi == IF b1 = 237 THEN 159 ELSE 191
        IN  IF ~InRange(b, 2, lo, hi) THEN <<REPLACEMENT, 1>>
            ELSE IF ~IsCont(b, 3) THEN <<REPLACEMENT, 2>>
            ELSE <<(b1 - 224) * 4096 + (b[2] - 128) * 64 + (b[3] - 128), 3>>
    ELSE IF b1 >= 240 /\ b1 <= 244 THEN
        LET lo == IF b1 = 240 THEN 144 ELSE 128
            hi == IF b1 = 244 THEN 143 ELSE 191
        IN  IF ~InRange(b, 2, lo, hi) THEN <<REPLACEMENT, 1>>
            ELSE IF ~IsCont(b, 3) THEN <<REPLACEMENT, 2>>
            ELSE IF ~IsCont(b, 4) THEN <<REPLACEMENT, 3>>
            ELSE <<(b1 - 240) * 262144 + (b[2] - 128) * 4096
                       + (b[3] - 128) * 64 + (b[4] - 128), 4>>
    ELSE <<REPLACEMENT, 1>>

RECURSIVE DecodeUtf8(_)
DecodeUtf8(b) ==
    IF b = <<>> THEN <<>>
    ELSE LET st == DecodeUtf8Step(b)
         IN  <<st[1]>> \o DecodeUtf8(Drop(b, st[2]))

\* a decoder that clears the high bit instead of replacing the byte
DecodeAsciiMasked(b) == [i \in 1..Len(b) |-> b[i] % 128]

\* bytes.decode("ascii", errors="replace")
DecodeAscii(b) == [i \in 1..Len(b) |-> IF b[i] < 128 THEN b[i] ELSE REPLACEMENT]

\* raw.split(b"\x00", 1)[0]
RECURSIVE UpToZero(_)
UpToZero(b) ==
    IF b = <<>> \/ Head(b) = 0 THEN <<>> ELSE <<Head(b)>> \o UpToZero(Tail(b))

---------------------------------------------------------------------------
(* src/common/protocol.py *)

\* ljust without its fill argument pads with spaces
pack_fixed_name_spaces(name, length) ==
    Take(EncodeUtf8(name), length) \o Repeat(32, length - Len(Take(EncodeUtf8(name), length)))

pack_fixed_name(name, length) == LjustZero(Take(EncodeUtf8(name), length), length)

\* decoding the whole field, padding included
unpack_fixed_name_padded(raw) == DecodeUtf8(raw)

unpack_fixed_name(raw) == DecodeUtf8(UpToZero(raw))

\* a header check that forgets the type tag
validate_header_cookie_only(cookie, msg_type, expected_type) ==
    cookie = MAGIC_COOKIE

\* TRUE when _validate_header raises nothing
validate_header(cookie, msg_type, expected_type) ==
    cookie = MAGIC_COOKIE /\ msg_type = expected_type

build_offer(tcp_port, server_name) ==
    IF ~(0 <= tcp_port /\ tcp_port <= 65535) THEN Raise
    ELSE Return(MAGIC_COOKIE \o PackU8(TYPE_OFFER) \o PackU16(tcp_port)
                    \o PackS(pack_fixed_name(server_name, NAME_LEN), 32))

parse_offer(d) ==
    IF Len(d) # OFFER_LEN THEN Raise
    ELSE IF ~validate_header(SubSeq(d, 1, 4), d[5], TYPE_OFFER) THEN Raise
    ELSE Return([tcp_port |-> UnpackU16(SubSeq(d, 6, 7)),
                 server_name |-> unpack_fixed_name(SubSeq(d, 8, 39))])

build_request(rounds, team_name) ==
    IF ~(0 <= rounds /\ rounds <= 255) THEN Raise
    ELSE Return(MAGIC_COOKIE \o PackU8(TYPE_REQUEST) \o PackU8(rounds)
                    \o PackS(pack_fixed_name(team_name, NAME_LEN), 32))

parse_request(d) ==
    IF Len(d) # REQUEST_LEN THEN Raise
    ELSE IF ~validate_header(SubSeq(d, 1, 4), d[5], TYPE_REQUEST) THEN Raise
    ELSE Return([rounds |-> d[6],
                 team_name |-> unpack_fixed_name(SubSeq(d, 7, 38))])

build_payload_client(decision) ==
    IF decision \notin VALID_DECISIONS THEN Raise
    ELSE IF Len(decision) # DECISION_LEN THEN Raise
    ELSE Return(MAGIC_COOKIE \o PackU8(TYPE_PAYLOAD) \o PackS(decision, 5))

parse_payload_client(d) ==
    IF Len(d) # PAYLOAD_CLIENT_LEN THEN Raise
    ELSE IF ~validate_header(SubSeq(d, 1, 4), d[5], TYPE_PAYLOAD) THEN Raise
    ELSE LET decision == DecodeAscii(SubSeq(d, 6, 10))
         IN  IF decision \notin VALID_DECISIONS THEN Raise
             ELSE Return([decision |-> decision])

\* build_payload_server without its rank check
build_payload_server_any_rank(result, rank, suit) ==
    IF result \notin VALID_RESULTS THEN Raise
    ELSE IF suit \notin DOMAIN SUIT_TO_CODE THEN Raise
    ELSE Return(MAGIC_COOKIE \o PackU8(TYPE_PAYLOAD) \o PackU8(result)
                    \o PackU16(rank) \o PackU8(SUIT_TO_CODE[suit]))

build_payload_server(result, rank, suit) ==
    IF result \notin VALID_RESULTS THEN Raise
    ELSE IF ~(1 <= rank /\ rank <= 13) THEN Raise
    ELSE IF suit \notin DOMAIN SUIT_TO_CODE THEN Raise
    ELSE Return(MAGIC_COOKIE \o PackU8(TYPE_PAYLOAD) \o PackU8(result)
                    \o PackU16(rank) \o PackU8(SUIT_TO_CODE[suit]))

\* parse_payload_server accepting any buffer that is long enough
parse_payload_server_min_len(d) ==
    IF Len(d) < PAYLOAD_SERVER_LEN THEN Raise
    ELSE IF ~validate_header(SubSeq(Take(d, 6), 1, 4), Take(d, 6)[5], TYPE_PAYLOAD)
         THEN Raise
    ELSE IF Take(d, 6)[6] \notin VALID_RESULTS THEN Raise
    ELSE LET rank == UnpackU16(SubSeq(d, 7, 8))
             suit_code == SubSeq(d, 7, 9)[3]
         IN  IF ~(1 <= rank /\ rank <= 13) THEN Raise
             ELSE IF suit_code \notin DOMAIN CODE_TO_SUIT THEN Raise
             ELSE Return([result |-> Take(d, 6)[6], rank |-> rank,
                          suit |-> CODE_TO_SUIT[suit_code]])

\* parse_payload_server checking only the upper end of the rank
parse_payload_server_rank_zero(d) ==
    IF Len(d) # PAYLOAD_SERVER_LEN THEN Raise
    ELSE IF ~validate_header(SubSeq(Take(d, 6), 1, 4), Take(d, 6)[5], TYPE_PAYLOAD)
         THEN Raise
    ELSE IF Take(d, 6)[6] \notin VALID_RESULTS THEN Raise
    ELSE LET rank == UnpackU16(SubSeq(d, 7, 8))
             suit_code == SubSeq(d, 7, 9)[3]
         IN  IF ~(rank <= 13) THEN Raise
             ELSE IF suit_code \notin DOMAIN CODE_TO_SUIT THEN Raise
             ELSE Return([result |-> Take(d, 6)[6], rank |-> rank,
                          suit |-> CODE_TO_SUIT[suit_code]])

parse_payload_server(d) ==
    IF Len(d) # PAYLOAD_SERVER_LEN THEN Raise
    ELSE IF ~validate_header(SubSeq(Take(d, 6), 1, 4), Take(d, 6)[5], TYPE_PAYLOAD)
         THEN Raise
    ELSE IF Take(d, 6)[6] \notin VALID_RESULTS THEN Raise
    ELSE LET rank == UnpackU16(SubSeq(d, 7, 8))
             suit_code == SubSeq(d, 7, 9)[3]
         IN  IF ~(1 <= rank /\ rank <= 13) THEN Raise
             ELSE IF suit_code \notin DOMAIN CODE_TO_SUIT THEN Raise
             ELSE Return([result |-> Take(d, 6)[6], rank |-> rank,
                          suit |-> CODE_TO_SUIT[suit_code]])

---------------------------------------------------------------------------
(* The codec harness: the arguments and buffers the codec is run on *)

FixedLen(m) ==
    CASE m = "offer" -> OFFER_LEN
      [] m = "request" -> REQUEST_LEN
      [] m = "payload_client" -> PAYLOAD_CLIENT_LEN
      [] m = "payload_server" -> PAYLOAD_SERVER_LEN

ExpectedType(m) ==
    CASE m = "offer" -> TYPE_OFFER
      [] m = "request" -> TYPE_REQUEST
      [] m = "payload_client" -> TYPE_PAYLOAD
      [] m = "payload_server" -> TYPE_PAYLOAD

MsgKinds == {"offer", "request", "payload_client", "payload_server"}

\* NUL, e-acute (2 bytes), euro sign (3 bytes), a lone surrogate, an emoji (4 bytes)
NameChars == {0, 233, 8364, 55296, 128512}

RECURSIVE SeqsUpTo(_, _)
SeqsUpTo(S, n) ==
    IF n = 0 THEN {<<>>}
    ELSE LET shorter == SeqsUpTo(S, n - 1)
         IN  shorter \cup {Append(t, c) : t \in shorter, c \in S}

\* how many "A" a name starts with: empty, just under, at and over NAME_LEN
NameFill == {0, NAME_LEN - 3, NAME_LEN - 1, NAME_LEN, NAME_LEN + 1}
Names == {Repeat(65, k) \o t : k \in NameFill, t \in SeqsUpTo(NameChars, MaxTail)}
Ports == {-1, 0, 1, 255, 256, 5555, 65535, 65536}
RoundCounts == {-1, 0, 1, 7, 255, 256}
Decisions == {Hittt, Stand, <<104, 105, 116, 116, 116>>, <<72, 105, 116>>,
              <<83, 116, 97, 110, 100, 32>>, <<>>}
ResultArgs == {-1, 0, 1, 2, 3, 4}
RankArgs == 0..14
SuitArgs == {"H", "D", "C", "S", "h", "X"}

\* raw field values for forged buffers
RawCookies == {MAGIC_COOKIE, <<171, 205, 220, 187>>, <<186, 220, 205, 171>>}
RawTypes == {TYPE_OFFER, TYPE_REQUEST, TYPE_PAYLOAD, 5}
RawNames == {LjustZero(b, NAME_LEN) :
                b \in {<<>>, <<65, 0, 66>>, <<255>>, <<195>>, <<226, 130>>,
                       Repeat(66, NAME_LEN)}}
RawTokens == {Hittt, Stand, <<104, 105, 116, 116, 116>>, <<83, 84, 65, 78, 68>>,
              <<72, 105, 116, 0, 0>>, <<72, 105, 116, 32, 32>>,
              <<200, 105, 116, 116, 116>>, <<83, 116, 97, 110, 228>>}
RawResults == {0, 1, 2, 3, 4, 255}
RawRanks == {0, 1, 13, 14, 255, 256, 269, 65535}
RawSuits == {0, 1, 2, 3, 4, 255}

CodecInit ==
    /\ cstage = "idle"
    /\ msg = "none"
    /\ origin = "none"
    /\ args = <<>>
    /\ wire = Raise
    /\ data = <<>>
    /\ resized = FALSE
    /\ fn = "none"
    /\ parsed = Raise

\* the harness hands build_*'s result on, or stops when it raised
Built(m, a, w) ==
    /\ msg' = m
    /\ origin' = "built"
    /\ args' = a
    /\ wire' = w
    /\ data' = IF w.ok THEN w.val ELSE <<>>
    /\ cstage' = IF w.ok THEN "have" ELSE "raised"
    /\ UNCHANGED <<resized, fn, parsed, rulesVars, deckVars, srvVars, moreVars, sessionVars>>

BuildOffer ==
    /\ cstage = "idle"
    /\ \E p \in Ports, n \in Names :
           Built("offer", [tcp_port |-> p, server_name |-> n], build_offer(p, n))

BuildRequest ==
    /\ cstage = "idle"
    /\ \E r \in RoundCounts, n \in Names :
           Built("request", [rounds |-> r, team_name |-> n], build_request(r, n))

BuildPayloadClient ==
    /\ cstage = "idle"
    /\ \E d \in Decisions :
           Built("payload_client", [decision |-> d], build_payload_client(d))

BuildPayloadServer ==
    /\ cstage = "idle"
    /\ \E res \in ResultArgs, rk \in RankArgs, su \in SuitArgs :
           Built("payload_server", [result |-> res, rank |-> rk, suit |-> su],
                 build_payload_server(res, rk, su))

Forged(m, a, d) ==
    /\ msg' = m
    /\ origin' = "forged"
    /\ args' = a
    /\ data' = d
    /\ cstage' = "have"
    /\ UNCHANGED <<wire, resized, fn, parsed, rulesVars, deckVars, srvVars, moreVars, sessionVars>>

ForgeOffer ==
    /\ cstage = "idle"
    /\ \E c \in RawCookies, t \in RawTypes, p \in {0, 5555, 65535}, n \in RawNames :
           Forged("offer", [cookie |-> c, type |-> t, tcp_port |-> p, name |-> n],
                  c \o PackU8(t) \o PackU16(p) \o n)

ForgeRequest ==
    /\ cstage = "idle"
    /\ \E c \in RawCookies, t \in RawTypes, r \in {0, 7, 255}, n \in RawNames :
           Forged("request", [cookie |-> c, type |-> t, rounds |-> r, name |-> n],
                  c \o PackU8(t) \o PackU8(r) \o n)

ForgePayloadClient ==
    /\ cstage = "idle"
    /\ \E c \in RawCookies, t \in RawTypes, k \in RawTokens :
           Forged("payload_client", [cookie |-> c, type |-> t, token |-> k],
                  c \o PackU8(t) \o k)

ForgePayloadServer ==
    /\ cstage = "idle"
    /\ \E c \in RawCookies, t \in RawTypes, res \in RawResults, rk \in RawRanks,
          su \in RawSuits :
           Forged("payload_server",
                  [cookie |-> c, type |-> t, result |-> res, rank |-> rk, suit |-> su],
                  c \o PackU8(t) \o PackU8(res) \o PackU16(rk) \o PackU8(su))

\* lengths a buffer is cut or zero-extended to: empty, inside the header, the
\* four message lengths, and up to MaxExtra around its own
ResizeLens(L) ==
    {n \in 0..(L + MaxExtra) :
        /\ n # L
        /\ \/ n \in {0, 4, 5}
           \/ n \in {FixedLen(m) : m \in MsgKinds}
           \/ (n >= L - MaxExtra /\ n <= L + MaxExtra)}

Resize ==
    /\ cstage = "have"
    /\ ~resized
    /\ \E n \in ResizeLens(Len(data)) :
          data' = IF n <= Len(data) THEN Take(data, n)
                  ELSE data \o Repeat(0, n - Len(data))
    /\ resized' = TRUE
    /\ UNCHANGED <<cstage, msg, origin, args, wire, fn, parsed, rulesVars, deckVars, srvVars, moreVars, sessionVars>>

Parsed(f, r) ==
    /\ cstage = "have"
    /\ cstage' = "parsed"
    /\ fn' = f
    /\ parsed' = r
    /\ UNCHANGED <<msg, origin, args, wire, data, resized, rulesVars, deckVars, srvVars, moreVars, sessionVars>>

ParseOffer == Parsed("offer", parse_offer(data))
ParseRequest == Parsed("request", parse_request(data))
ParsePayloadClient == Parsed("payload_client", parse_payload_client(data))
ParsePayloadServer == Parsed("payload_server", parse_payload_server(data))

CodecReset ==
    /\ cstage \in {"parsed", "raised"}
    /\ cstage' = "idle"
    /\ msg' = "none"
    /\ origin' = "none"
    /\ args' = <<>>
    /\ wire' = Raise
    /\ data' = <<>>
    /\ resized' = FALSE
    /\ fn' = "none"
    /\ parsed' = Raise
    /\ UNCHANGED <<rulesVars, deckVars, srvVars, moreVars, sessionVars>>

CodecNext ==
    \/ BuildOffer
    \/ BuildRequest
    \/ BuildPayloadClient
    \/ BuildPayloadServer
    \/ ForgeOffer
    \/ ForgeRequest
    \/ ForgePayloadClient
    \/ ForgePayloadServer
    \/ Resize
    \/ ParseOffer
    \/ ParseRequest
    \/ ParsePayloadClient
    \/ ParsePayloadServer
    \/ CodecReset


---------------------------------------------------------------------------
(* src/common/cards.py and src/common/rules.py *)

SUITS == <<"H", "D", "C", "S">>
RANKS == [i \in 1..13 |-> i]
Card(r, s) == [rank |-> r, suit |-> s]

\* the comment in rules.py says "Ace = 1"; the code returns 11
card_value_ace_one(card) ==
    IF card.rank = 1 THEN 1
    ELSE IF 2 <= card.rank /\ card.rank <= 10 THEN card.rank
    ELSE 10

card_value(card) ==
    IF card.rank = 1 THEN 11
    ELSE IF 2 <= card.rank /\ card.rank <= 10 THEN card.rank
    ELSE 10

RECURSIVE hand_value(_)
hand_value(hand) ==
    IF hand = <<>> THEN 0 ELSE card_value(Head(hand)) + hand_value(Tail(hand))

\* a hand worth 22 is not yet bust
is_bust_above_22(hand) == hand_value(hand) > 22

is_bust(hand) == hand_value(hand) > 21

\* a dealer that also draws on 17
dealer_should_hit_on_17(hand) == hand_value(hand) <= 17

dealer_should_hit(hand) == hand_value(hand) < 17

---------------------------------------------------------------------------
(* The rules harness: every hand of up to MaxHand cards is scored *)

RulesCards == {Card(RANKS[i], s) : i \in DOMAIN RANKS, s \in {"H", "S"}}

RulesInit ==
    /\ rstage = "dealing"
    /\ rhand = <<>>
    /\ rvalue = 0
    /\ rbust = FALSE
    /\ rhit = FALSE

RulesTake ==
    /\ rstage = "dealing"
    /\ Len(rhand) < MaxHand
    /\ \E c \in RulesCards : rhand' = Append(rhand, c)
    /\ UNCHANGED <<rstage, rvalue, rbust, rhit, codecVars, deckVars, srvVars, moreVars, sessionVars>>

RulesScore ==
    /\ rstage = "dealing"
    /\ rstage' = "scored"
    /\ rvalue' = hand_value(rhand)
    /\ rbust' = is_bust(rhand)
    /\ rhit' = dealer_should_hit(rhand)
    /\ UNCHANGED <<rhand, codecVars, deckVars, srvVars, moreVars, sessionVars>>

RulesNext == RulesTake \/ RulesScore

---------------------------------------------------------------------------
(* src/common/cards.py: Deck *)

\* The session's deck is cut down to the ranks DeckRanks of the suits DeckSuits
\* (the program's deck is RANKS x SUITS): an ace (11), a five and a six give
\* hands worth 10, 11, 12, 16, 17 and 22, and so few cards that the deck runs
\* out and is refilled within a round.
DeckRanks == <<1, 5, 6>>
DeckSuits == <<"S">>

\* b without its i-th element
RemoveAt(b, i) == SubSeq(b, 1, i - 1) \o SubSeq(b, i + 1, Len(b))

\* Deck.__init__: [Card(r, s) for s in SUITS for r in RANKS], then shuffled.
\* The shuffle is resolved when a card is drawn: _cards is kept in list order
\* and pop() takes any of its elements, which is what popping the end of a
\* uniformly shuffled list amounts to.
Deck_init ==
    [k \in 1..(Len(DeckSuits) * Len(DeckRanks)) |->
        Card(DeckRanks[((k - 1) % Len(DeckRanks)) + 1],
             DeckSuits[((k - 1) \div Len(DeckRanks)) + 1])]

\* Deck.draw: the pairs <<card returned, _cards afterwards>>
Deck_draw(cards) ==
    LET full == IF cards = <<>> THEN Deck_init ELSE cards
    IN  {<<full[i], RemoveAt(full, i)>> : i \in 1..Len(full)}

---------------------------------------------------------------------------
(* The deck harness: Deck() and then draw(), with the whole deck *)

\* line 19: [Card(r, s) for s in SUITS for r in RANKS]
FullDeck ==
    [k \in 1..(Len(SUITS) * Len(RANKS)) |->
        Card(RANKS[((k - 1) % Len(RANKS)) + 1], SUITS[((k - 1) \div Len(RANKS)) + 1])]

\* line 20, random.shuffle: some of the orders it can leave the list in, as
\* maps from the new position to the old: unchanged, reversed, cut in the
\* middle, and spread (k -> 5k mod 53)
Shuffles ==
    {[k \in 1..52 |-> k],
     [k \in 1..52 |-> 53 - k],
     [k \in 1..52 |-> ((k + 25) % 52) + 1],
     [k \in 1..52 |-> (5 * k) % 53]}
Permute(cards, p) == [k \in 1..Len(cards) |-> cards[p[k]]]

DeckInit ==
    /\ dk_cards = <<>>
    /\ dk_inits = 0
    /\ dk_out = <<>>
    /\ dk_last = [rank |-> 0, suit |-> "-"]     \* nothing returned yet

\* deck = Deck(): __init__, lines 18-20
DeckNew ==
    /\ dk_inits = 0
    /\ \E p \in Shuffles : dk_cards' = Permute(FullDeck, p)
    /\ dk_inits' = 1
    /\ dk_out' = <<>>
    /\ UNCHANGED <<dk_last, codecVars, rulesVars, sessionVars, srvVars, moreVars>>

\* draw returns the last card of the list and leaves it in the list
DeckDrawKeeps ==
    /\ dk_inits > 0
    /\ dk_cards # <<>> \/ dk_inits < MaxInits
    /\ \E p \in (IF dk_cards = <<>> THEN Shuffles ELSE {[k \in 1..52 |-> k]}) :
          LET refill == dk_cards = <<>>
              cards == IF refill THEN Permute(FullDeck, p) ELSE dk_cards
          IN  /\ dk_last' = cards[Len(cards)]
              /\ dk_cards' = cards
              /\ dk_out' = Append(IF refill THEN <<>> ELSE dk_out, cards[Len(cards)])
              /\ dk_inits' = IF refill THEN dk_inits + 1 ELSE dk_inits
    /\ UNCHANGED <<codecVars, rulesVars, sessionVars, srvVars, moreVars>>

\* deck.draw(), lines 22-26: __init__ again if the list is empty, then pop()
DeckDraw ==
    /\ dk_inits > 0
    /\ dk_cards # <<>> \/ dk_inits < MaxInits
    /\ \E p \in (IF dk_cards = <<>> THEN Shuffles ELSE {[k \in 1..52 |-> k]}) :
          LET refill == dk_cards = <<>>
              cards == IF refill THEN Permute(FullDeck, p) ELSE dk_cards
          IN  /\ dk_last' = cards[Len(cards)]
              /\ dk_cards' = SubSeq(cards, 1, Len(cards) - 1)
              /\ dk_out' = Append(IF refill THEN <<>> ELSE dk_out, cards[Len(cards)])
              /\ dk_inits' = IF refill THEN dk_inits + 1 ELSE dk_inits
    /\ UNCHANGED <<codecVars, rulesVars, sessionVars, srvVars, moreVars>>

DeckNext == DeckNew \/ DeckDraw

---------------------------------------------------------------------------
(* One session: src/server/session.py against src/client/main.py *)

TEAMNAME == <<77, 73, 84, 83, 89, 32, 77, 73, 84, 83, 89, 32, 77, 82, 69, 79,
              87, 32, 77, 69, 79, 87, 32, 61, 94, 46, 94, 61>>
NoCard == [rank |-> 0, suit |-> "-"]        \* last_sent = None
None == -1                                  \* final_result = None

SessionInit ==
    /\ c2s = <<>> /\ s2c = <<>> /\ c_closed = FALSE /\ s_closed = FALSE
    /\ spc = "recv_request" /\ req_rounds = 0 /\ round_i = 0
    /\ deck = <<>> /\ player = <<>> /\ dealer = <<>>
    /\ last_sent = NoCard /\ round_result = None
    /\ out_log = <<>> /\ in_log = <<>> /\ s_err = "none"
    /\ cpc = "send_request" /\ c_rounds = 0 /\ c_r = 0
    /\ c_player = <<>> /\ c_dealer = <<>> /\ final_result = None
    /\ c_sent = 0 /\ c_in = <<>> /\ c_out = <<>> /\ s2c_round = <<>>

\* the connections the accept loop is offered
Conns == {"a", "b"}

\* a connection not yet made: no thread, no locals
IdleRec ==
    [pc |-> "idle", err |-> "none", rounds |-> 0, round_i |-> 0,
     deck |-> <<>>, player |-> <<>>, dealer |-> <<>>,
     inbox |-> <<>>, eof |-> FALSE, nsent |-> 0]

\* server/main.py lines 31 and 47: the listener is open and the loop is entered
SrvInit ==
    /\ th = [k \in Conns |-> IdleRec]
    /\ accepting = TRUE

\* broadcast_offers has been started in its thread (server/main.py 36-41)
BcastInit ==
    /\ bpc = "ifconfig" /\ b_ifaces = <<>> /\ b_chosen = <<>>
    /\ stop_event = FALSE /\ b_sends = <<>> /\ b_left = 0 /\ b_raised = FALSE /\ b_after = 0

\* before collect_offers is called
DiscInit ==
    /\ dpc = "call" /\ d_max = 0 /\ d_time = 0 /\ d_offers = <<>> /\ d_recv = <<>> /\ d_ret = <<>>

\* before listen_for_offer is called
ListenInit ==
    /\ lpc = "call" /\ l_time = 0 /\ l_wait = 0 /\ l_recv = <<>> /\ l_ret = <<>>

\* before recv_exact is called
RecvExactInit ==
    /\ xpc = "call" /\ x_n = 0 /\ x_orig = <<>> /\ x_stream = <<>> /\ x_closed = FALSE
    /\ x_chunks = <<>> /\ x_remaining = 0 /\ x_asked = <<>> /\ x_ret = <<>>

\* handle_client before line 118
HandsInit ==
    /\ hpc = "new" /\ h_deck = <<>> /\ h_inits = 0 /\ h_round = 0
    /\ h_player = <<>> /\ h_dealer = <<>>

Init ==
    /\ CodecInit /\ RulesInit /\ DeckInit /\ SessionInit /\ SrvInit
    /\ BcastInit /\ DiscInit /\ ListenInit /\ RecvExactInit /\ HandsInit /\ f_sent = 0

\* the bytes of a Card/Result message (build_payload_server never raises on a
\* card of the deck and a result code of constants.py)
CardMsg(result_code, card) == build_payload_server(result_code, card.rank, card.suit).val

\* _send_card, and the conn.sendall of a final payload: the message is queued
\* and logged "OUT"
Sent(result_code, card) ==
    /\ s2c' = Append(s2c, CardMsg(result_code, card))
    /\ s2c_round' = Append(s2c_round, round_i)
    /\ out_log' = Append(out_log, CardMsg(result_code, card))

(* ------------------------------ the server ------------------------------ *)

\* handle_client: recv_exact(conn, REQUEST_LEN), parse_request, Deck()
HandleClient ==
    /\ spc = "recv_request"
    /\ c2s # <<>> \/ c_closed
    /\ IF c2s = <<>>
       THEN \* recv returned b"": ConnectionError
            /\ spc' = "close"
            /\ s_err' = "ConnectionError"
            /\ UNCHANGED <<c2s, req_rounds, deck>>
       ELSE LET req == parse_request(Head(c2s))
            IN  /\ c2s' = Tail(c2s)
                /\ IF req.ok
                   THEN /\ req_rounds' = req.val.rounds
                        /\ deck' = Deck_init
                        /\ spc' = "for_rounds"
                        /\ UNCHANGED s_err
                   ELSE /\ spc' = "close"
                        /\ s_err' = req.err
                        /\ UNCHANGED <<req_rounds, deck>>
    /\ UNCHANGED <<s2c, s2c_round, c_closed, s_closed, round_i, player, dealer, last_sent,
                   round_result, out_log, in_log, clientVars, codecVars, rulesVars, deckVars, srvVars, moreVars>>

\* for i in range(req.rounds + 1): one round too many
ForRoundsOneMore ==
    /\ spc = "for_rounds"
    /\ IF round_i <= req_rounds
       THEN /\ spc' = "deal"
            /\ player' = <<>>
            /\ dealer' = <<>>
            /\ last_sent' = NoCard
            /\ out_log' = <<>>
            /\ in_log' = <<>>
       ELSE /\ spc' = "close"
            /\ UNCHANGED <<player, dealer, last_sent, out_log, in_log>>
    /\ UNCHANGED <<connVars, req_rounds, round_i, deck, round_result, clientVars,
                   codecVars, rulesVars, deckVars, srvVars, moreVars>>
    /\ UNCHANGED s_err

\* for i in range(req.rounds): the next round begins, or the loop is over
ForRounds ==
    /\ spc = "for_rounds"
    /\ IF round_i < req_rounds
       THEN /\ spc' = "deal"
            /\ player' = <<>>
            /\ dealer' = <<>>
            /\ last_sent' = NoCard
            /\ out_log' = <<>>
            /\ in_log' = <<>>
       ELSE /\ spc' = "close"
            /\ UNCHANGED <<player, dealer, last_sent, out_log, in_log>>
    /\ UNCHANGED <<connVars, req_rounds, round_i, deck, round_result, clientVars,
                   codecVars, rulesVars, deckVars, srvVars, moreVars>>
    /\ UNCHANGED s_err

\* play_one_round opening a deck of its own: the first draw of a round is
\* from a new Deck()
DealFromNewDeck ==
    /\ spc = "deal"
    /\ \E d \in Deck_draw(IF player = <<>> THEN Deck_init ELSE deck) :
          /\ deck' = d[2]
          /\ IF Len(player) < 2
             THEN player' = Append(player, d[1]) /\ UNCHANGED dealer
             ELSE dealer' = Append(dealer, d[1]) /\ UNCHANGED player
    /\ spc' = IF Len(player) + Len(dealer) = 3 THEN "send_initial" ELSE "deal"
    /\ UNCHANGED <<connVars, req_rounds, round_i, last_sent, round_result, out_log, in_log,
                   clientVars, codecVars, rulesVars, deckVars, srvVars, moreVars>>
    /\ UNCHANGED s_err

\* play_one_round, lines 48-49: the four draws, player first
Deal ==
    /\ spc = "deal"
    /\ \E d \in Deck_draw(deck) :
          /\ deck' = d[2]
          /\ IF Len(player) < 2
             THEN player' = Append(player, d[1]) /\ UNCHANGED dealer
             ELSE dealer' = Append(dealer, d[1]) /\ UNCHANGED player
    /\ spc' = IF Len(player) + Len(dealer) = 3 THEN "send_initial" ELSE "deal"
    /\ UNCHANGED <<connVars, req_rounds, round_i, last_sent, round_result, out_log, in_log,
                   clientVars, codecVars, rulesVars, deckVars, srvVars, moreVars>>
    /\ UNCHANGED s_err

\* initial reveals that show the dealer's second card
InitialRevealsHidden(p, d) == <<p[1], p[2], d[2]>>

\* lines 56-58: the cards revealed at once: player[0], player[1], dealer[0]
InitialReveals(p, d) == <<p[1], p[2], d[1]>>

\* lines 56-58: one _send_card for each initial reveal
SendInitial ==
    /\ spc = "send_initial"
    /\ LET k == Len(out_log) + 1
           card == InitialReveals(player, dealer)[k]
       IN  /\ Sent(RESULT_NOT_OVER, card)
           /\ last_sent' = card
           /\ spc' = IF k = 3 THEN "recv_decision" ELSE "send_initial"
    /\ UNCHANGED <<c2s, c_closed, s_closed, req_rounds, round_i, deck, player, dealer,
                   round_result, in_log, clientVars, codecVars, rulesVars, deckVars, srvVars, moreVars>>
    /\ UNCHANGED s_err

\* a Decision that does not parse is dropped and the next one awaited
RecvDecisionSkipsBad ==
    /\ spc = "recv_decision"
    /\ c2s # <<>> \/ c_closed
    /\ IF c2s = <<>>
       THEN /\ spc' = "close"
            /\ s_err' = "ConnectionError"
            /\ UNCHANGED <<c2s, in_log>>
       ELSE LET dec == parse_payload_client(Head(c2s))
            IN  /\ c2s' = Tail(c2s)
                /\ in_log' = Append(in_log, Head(c2s))
                /\ spc' = IF ~dec.ok THEN "recv_decision"
                          ELSE IF dec.val.decision = Hittt THEN "hit"
                          ELSE "reveal"
                /\ UNCHANGED s_err
    /\ UNCHANGED <<s2c, s2c_round, c_closed, s_closed, req_rounds, round_i, deck, player, dealer,
                   last_sent, round_result, out_log, clientVars, codecVars, rulesVars, deckVars, srvVars, moreVars>>

\* lines 62-66, 79-82: one Decision is read and parsed
RecvDecision ==
    /\ spc = "recv_decision"
    /\ c2s # <<>> \/ c_closed
    /\ IF c2s = <<>>
       THEN \* recv returned b"": ConnectionError
            /\ spc' = "close"
            /\ s_err' = "ConnectionError"
            /\ UNCHANGED <<c2s, in_log>>
       ELSE LET dec == parse_payload_client(Head(c2s))
            IN  /\ c2s' = Tail(c2s)
                /\ in_log' = Append(in_log, Head(c2s))
                /\ spc' = IF ~dec.ok THEN "close"
                          ELSE IF dec.val.decision = Hittt THEN "hit"
                          ELSE IF dec.val.decision = Stand THEN "reveal"
                          ELSE "close"
                /\ s_err' = IF ~dec.ok THEN dec.err
                            ELSE IF dec.val.decision \in {Hittt, Stand} THEN s_err
                            ELSE "ProtocolError"
    /\ UNCHANGED <<s2c, s2c_round, c_closed, s_closed, req_rounds, round_i, deck, player, dealer,
                   last_sent, round_result, out_log, clientVars, codecVars, rulesVars, deckVars, srvVars, moreVars>>

\* the hit card is sent twice
HitSendsTwice ==
    /\ spc = "hit"
    /\ \E d \in Deck_draw(deck) :
          /\ deck' = d[2]
          /\ player' = Append(player, d[1])
          /\ s2c' = s2c \o <<CardMsg(RESULT_NOT_OVER, d[1]), CardMsg(RESULT_NOT_OVER, d[1])>>
          /\ s2c_round' = s2c_round \o <<round_i, round_i>>
          /\ out_log' = out_log \o <<CardMsg(RESULT_NOT_OVER, d[1]), CardMsg(RESULT_NOT_OVER, d[1])>>
          /\ last_sent' = d[1]
          /\ spc' = IF is_bust(Append(player, d[1])) THEN "bust" ELSE "recv_decision"
    /\ UNCHANGED <<c2s, c_closed, s_closed, req_rounds, round_i, dealer, round_result, in_log,
                   clientVars, codecVars, rulesVars, deckVars, srvVars, moreVars>>
    /\ UNCHANGED s_err

\* lines 67-71: the hit card is drawn, appended and sent
Hit ==
    /\ spc = "hit"
    /\ \E d \in Deck_draw(deck) :
          /\ deck' = d[2]
          /\ player' = Append(player, d[1])
          /\ Sent(RESULT_NOT_OVER, d[1])
          /\ last_sent' = d[1]
          /\ spc' = IF is_bust(Append(player, d[1])) THEN "bust" ELSE "recv_decision"
    /\ UNCHANGED <<c2s, c_closed, s_closed, req_rounds, round_i, dealer, round_result, in_log,
                   clientVars, codecVars, rulesVars, deckVars, srvVars, moreVars>>
    /\ UNCHANGED s_err

\* the dealer's hidden card is shown to a bust player before the result
BustRevealsHidden ==
    /\ spc = "bust"
    /\ s2c' = s2c \o <<CardMsg(RESULT_NOT_OVER, dealer[2]), CardMsg(RESULT_LOSS, last_sent)>>
    /\ s2c_round' = s2c_round \o <<round_i, round_i>>
    /\ out_log' = out_log \o <<CardMsg(RESULT_NOT_OVER, dealer[2]),
                               CardMsg(RESULT_LOSS, last_sent)>>
    /\ round_result' = RESULT_LOSS
    /\ round_i' = round_i + 1
    /\ spc' = "for_rounds"
    /\ UNCHANGED <<c2s, c_closed, s_closed, req_rounds, deck, player, dealer, last_sent,
                   in_log, clientVars, codecVars, rulesVars, deckVars, srvVars, moreVars>>
    /\ UNCHANGED s_err

\* lines 72-77: the player is bust, the final payload reuses last_sent
Bust ==
    /\ spc = "bust"
    /\ Sent(RESULT_LOSS, last_sent)
    /\ round_result' = RESULT_LOSS
    /\ round_i' = round_i + 1
    /\ spc' = "for_rounds"
    /\ UNCHANGED <<c2s, c_closed, s_closed, req_rounds, deck, player, dealer, last_sent,
                   in_log, clientVars, codecVars, rulesVars, deckVars, srvVars, moreVars>>
    /\ UNCHANGED s_err

\* the dealer's up-card is sent again in place of the hidden card
RevealUpCard ==
    /\ spc = "reveal"
    /\ Sent(RESULT_NOT_OVER, dealer[1])
    /\ last_sent' = dealer[1]
    /\ spc' = "dealer_turn"
    /\ UNCHANGED <<c2s, c_closed, s_closed, req_rounds, round_i, deck, player, dealer,
                   round_result, in_log, clientVars, codecVars, rulesVars, deckVars, srvVars, moreVars>>
    /\ UNCHANGED s_err

\* line 85: the hidden card is revealed
Reveal ==
    /\ spc = "reveal"
    /\ Sent(RESULT_NOT_OVER, dealer[2])
    /\ last_sent' = dealer[2]
    /\ spc' = "dealer_turn"
    /\ UNCHANGED <<c2s, c_closed, s_closed, req_rounds, round_i, deck, player, dealer,
                   round_result, in_log, clientVars, codecVars, rulesVars, deckVars, srvVars, moreVars>>
    /\ UNCHANGED s_err

\* lines 87-90: one pass of "while dealer_should_hit(dealer)"
DealerHit ==
    /\ spc = "dealer_turn"
    /\ dealer_should_hit(dealer)
    /\ \E d \in Deck_draw(deck) :
          /\ deck' = d[2]
          /\ dealer' = Append(dealer, d[1])
          /\ Sent(RESULT_NOT_OVER, d[1])
          /\ last_sent' = d[1]
    /\ UNCHANGED <<c2s, c_closed, s_closed, spc, req_rounds, round_i, player, round_result,
                   in_log, clientVars, codecVars, rulesVars, deckVars, srvVars, moreVars>>
    /\ UNCHANGED s_err

\* line 87: the loop condition is false, the dealer turn is over
DealerStand ==
    /\ spc = "dealer_turn"
    /\ ~dealer_should_hit(dealer)
    /\ spc' = "resolve"
    /\ UNCHANGED <<connVars, req_rounds, round_i, deck, player, dealer, last_sent,
                   round_result, out_log, in_log, clientVars, codecVars, rulesVars, deckVars, srvVars, moreVars>>
    /\ UNCHANGED s_err

\* lines 92-100 with a tie reported as 0
OutcomeTieAsZero(pv, dv, dealer_bust) ==
    IF dealer_bust \/ pv > dv THEN RESULT_WIN
    ELSE IF pv < dv THEN RESULT_LOSS
    ELSE 0

\* lines 92-100
Outcome(pv, dv, dealer_bust) ==
    IF dealer_bust \/ pv > dv THEN RESULT_WIN
    ELSE IF pv < dv THEN RESULT_LOSS
    ELSE RESULT_TIE

\* the final payload carries the dealer's up-card
ResolveWithUpCard ==
    /\ spc = "resolve"
    /\ LET res == Outcome(hand_value(player), hand_value(dealer), is_bust(dealer))
       IN  /\ Sent(res, dealer[1])
           /\ round_result' = res
    /\ round_i' = round_i + 1
    /\ spc' = "for_rounds"
    /\ UNCHANGED <<c2s, c_closed, s_closed, req_rounds, deck, player, dealer, last_sent,
                   in_log, clientVars, codecVars, rulesVars, deckVars, srvVars, moreVars>>
    /\ UNCHANGED s_err

\* lines 92-107: the result is computed and sent with last_sent
Resolve ==
    /\ spc = "resolve"
    /\ LET res == Outcome(hand_value(player), hand_value(dealer), is_bust(dealer))
       IN  /\ Sent(res, last_sent)
           /\ round_result' = res
    /\ round_i' = round_i + 1
    /\ spc' = "for_rounds"
    /\ UNCHANGED <<c2s, c_closed, s_closed, req_rounds, deck, player, dealer, last_sent,
                   in_log, clientVars, codecVars, rulesVars, deckVars, srvVars, moreVars>>
    /\ UNCHANGED s_err

\* conn.sendall on a connection the peer has closed may raise BrokenPipeError
\* or ConnectionResetError (both OSError) instead of queueing the bytes; a
\* draw that precedes the send has happened.  handle_client catches it.
SendFails ==
    /\ c_closed
    /\ spc \in {"send_initial", "hit", "bust", "reveal", "dealer_turn", "resolve"}
    /\ spc = "dealer_turn" => dealer_should_hit(dealer)
    /\ IF spc = "hit"
       THEN \E d \in Deck_draw(deck) :
               deck' = d[2] /\ player' = Append(player, d[1]) /\ UNCHANGED dealer
       ELSE IF spc = "dealer_turn"
       THEN \E d \in Deck_draw(deck) :
               deck' = d[2] /\ dealer' = Append(dealer, d[1]) /\ UNCHANGED player
       ELSE UNCHANGED <<deck, player, dealer>>
    /\ spc' = "close"
    /\ s_err' = "OSError"
    /\ UNCHANGED <<connVars, req_rounds, round_i, last_sent, round_result, out_log,
                   in_log, clientVars, codecVars, rulesVars, deckVars, srvVars, moreVars>>

\* handle_client, lines 125-128: conn.close() on every way out
Close ==
    /\ spc = "close"
    /\ s_closed' = TRUE
    /\ spc' = "closed"
    /\ UNCHANGED <<c2s, s2c, s2c_round, c_closed, req_rounds, round_i, deck, player, dealer,
                   last_sent, round_result, out_log, in_log, clientVars, codecVars, rulesVars, deckVars, srvVars, moreVars>>
    /\ UNCHANGED s_err

(* ------------------------------ the client ------------------------------ *)

\* main, lines 53-64: get_round_num, build_request, connect, sendall
ClientRequest ==
    /\ cpc = "send_request"
    /\ \E n \in 0..MaxRounds :
          /\ c_rounds' = n
          /\ c2s' = Append(c2s, build_request(n, TEAMNAME).val)
    /\ c_r' = 0
    /\ cpc' = "for_rounds"
    /\ UNCHANGED <<s2c, s2c_round, c_closed, s_closed, c_player, c_dealer, final_result,
                   serverVars, codecVars, rulesVars, deckVars, srvVars, moreVars>>
    /\ UNCHANGED <<c_sent, c_in, c_out>>

\* line 67: for r in range(rounds); after the last round the socket is closed
ClientForRounds ==
    /\ cpc = "for_rounds"
    /\ IF c_r < c_rounds
       THEN /\ cpc' = "recv_initial"
            /\ c_player' = <<>>
            /\ c_dealer' = <<>>
            /\ UNCHANGED c_closed
       ELSE /\ cpc' = "done"
            /\ c_closed' = TRUE
            /\ UNCHANGED <<c_player, c_dealer>>
    /\ UNCHANGED <<c2s, s2c, s2c_round, s_closed, c_rounds, c_r, final_result,
                   serverVars, codecVars, rulesVars, deckVars, srvVars, moreVars>>
    /\ IF c_r < c_rounds THEN c_in' = <<>> /\ c_out' = <<>>
       ELSE UNCHANGED <<c_in, c_out>>
    /\ UNCHANGED c_sent

\* recv_server_payload: one message is read and parsed
Received == parse_payload_server(Head(s2c))

\* the second message read is taken for the dealer's up-card
ClientRecvInitialTwo ==
    /\ cpc = "recv_initial"
    /\ s2c # <<>>
    /\ s2c' = Tail(s2c)
    /\ s2c_round' = Tail(s2c_round)
    /\ IF ~Received.ok
       THEN cpc' = "failed" /\ c_closed' = TRUE /\ UNCHANGED <<c_player, c_dealer>>
       ELSE LET c == Card(Received.val.rank, Received.val.suit)
            IN  /\ IF Len(c_player) < 1
                   THEN c_player' = Append(c_player, c) /\ UNCHANGED c_dealer
                   ELSE c_dealer' = Append(c_dealer, c) /\ UNCHANGED c_player
                /\ cpc' = IF Len(c_in) = 2 THEN "turn" ELSE "recv_initial"
                /\ UNCHANGED c_closed
    /\ UNCHANGED <<c2s, s_closed, c_rounds, c_r, final_result,
                   serverVars, codecVars, rulesVars, deckVars, srvVars, moreVars>>
    /\ c_in' = Append(c_in, Head(s2c))
    /\ UNCHANGED <<c_sent, c_out>>

\* lines 88-97: p1, p2 to the player's hand, up to the dealer's
ClientRecvInitial ==
    /\ cpc = "recv_initial"
    /\ s2c # <<>>
    /\ s2c' = Tail(s2c)
    /\ s2c_round' = Tail(s2c_round)
    /\ IF ~Received.ok
       THEN cpc' = "failed" /\ c_closed' = TRUE /\ UNCHANGED <<c_player, c_dealer>>
       ELSE LET c == Card(Received.val.rank, Received.val.suit)
            IN  /\ IF Len(c_player) < 2
                   THEN c_player' = Append(c_player, c) /\ UNCHANGED c_dealer
                   ELSE c_dealer' = Append(c_dealer, c) /\ UNCHANGED c_player
                /\ cpc' = IF Len(c_player) = 2 THEN "turn" ELSE "recv_initial"
                /\ UNCHANGED c_closed
    /\ UNCHANGED <<c2s, s_closed, c_rounds, c_r, final_result,
                   serverVars, codecVars, rulesVars, deckVars, srvVars, moreVars>>
    /\ c_in' = Append(c_in, Head(s2c))
    /\ UNCHANGED <<c_sent, c_out>>

\* without the break of line 141: after Stand the client prompts again
ClientTurnStandLoops ==
    /\ cpc = "turn"
    /\ IF is_bust(c_player)
       THEN /\ cpc' = "drain"
            /\ UNCHANGED <<c2s, c_out>>
       ELSE \E decision \in VALID_DECISIONS :
               /\ c2s' = Append(c2s, build_payload_client(decision).val)
               /\ c_out' = Append(c_out, build_payload_client(decision).val)
               /\ cpc' = IF decision = Hittt THEN "recv_hit" ELSE "turn"
    /\ final_result' = IF cpc' = "drain" THEN None ELSE final_result
    /\ UNCHANGED <<s2c, s2c_round, c_closed, s_closed, c_rounds, c_r, c_player, c_dealer,
                   serverVars, codecVars, rulesVars, deckVars, srvVars, moreVars>>
    /\ UNCHANGED <<c_sent, c_in>>

\* lines 103-113, 139-145: a bust hand asks nothing; otherwise ask_decision
\* and send_decision
ClientTurn ==
    /\ cpc = "turn"
    /\ IF is_bust(c_player)
       THEN /\ cpc' = "drain"
            /\ UNCHANGED <<c2s, c_out>>
       ELSE \E decision \in VALID_DECISIONS :
               /\ c2s' = Append(c2s, build_payload_client(decision).val)
               /\ c_out' = Append(c_out, build_payload_client(decision).val)
               /\ cpc' = IF decision = Hittt THEN "recv_hit" ELSE "drain"
    /\ final_result' = IF cpc' = "drain" THEN None ELSE final_result
    /\ UNCHANGED <<s2c, s2c_round, c_closed, s_closed, c_rounds, c_r, c_player, c_dealer,
                   serverVars, codecVars, rulesVars, deckVars, srvVars, moreVars>>
    /\ UNCHANGED <<c_sent, c_in>>

\* the reply to a Hit is added to the dealer's hand
ClientRecvHitToDealer ==
    /\ cpc = "recv_hit"
    /\ s2c # <<>>
    /\ s2c' = Tail(s2c)
    /\ s2c_round' = Tail(s2c_round)
    /\ IF ~Received.ok
       THEN cpc' = "failed" /\ c_closed' = TRUE /\ UNCHANGED <<c_dealer, final_result>>
       ELSE IF Received.val.result = RESULT_NOT_OVER
       THEN LET c == Card(Received.val.rank, Received.val.suit)
            IN  /\ c_dealer' = Append(c_dealer, c)
                /\ cpc' = IF is_bust(Append(c_player, c)) THEN "drain" ELSE "turn"
                /\ final_result' = IF is_bust(Append(c_player, c)) THEN None
                                   ELSE final_result
                /\ UNCHANGED c_closed
       ELSE /\ cpc' = "drain"
            /\ final_result' = None
            /\ UNCHANGED <<c_dealer, c_closed>>
    /\ UNCHANGED <<c2s, s_closed, c_rounds, c_r, c_player,
                   serverVars, codecVars, rulesVars, deckVars, srvVars, moreVars>>
    /\ c_in' = Append(c_in, Head(s2c))
    /\ UNCHANGED <<c_sent, c_out>>

\* lines 116-137, 144: the reply to a hit
ClientRecvHit ==
    /\ cpc = "recv_hit"
    /\ s2c # <<>>
    /\ s2c' = Tail(s2c)
    /\ s2c_round' = Tail(s2c_round)
    /\ IF ~Received.ok
       THEN cpc' = "failed" /\ c_closed' = TRUE /\ UNCHANGED <<c_player, final_result>>
       ELSE IF Received.val.result = RESULT_NOT_OVER
       THEN LET c == Card(Received.val.rank, Received.val.suit)
            IN  /\ c_player' = Append(c_player, c)
                /\ cpc' = IF is_bust(Append(c_player, c)) THEN "drain" ELSE "turn"
                /\ final_result' = IF is_bust(Append(c_player, c)) THEN None
                                   ELSE final_result
                /\ UNCHANGED c_closed
       ELSE \* final_result = msg.result; break; then line 144 resets it
            /\ cpc' = "drain"
            /\ final_result' = None
            /\ UNCHANGED <<c_player, c_closed>>
    /\ UNCHANGED <<c2s, s_closed, c_rounds, c_r, c_dealer,
                   serverVars, codecVars, rulesVars, deckVars, srvVars, moreVars>>
    /\ c_in' = Append(c_in, Head(s2c))
    /\ UNCHANGED <<c_sent, c_out>>

\* the first message read in the drain loop is taken for the final one
ClientDrainFirstIsFinal ==
    /\ cpc = "drain"
    /\ s2c # <<>>
    /\ s2c' = Tail(s2c)
    /\ s2c_round' = Tail(s2c_round)
    /\ IF ~Received.ok
       THEN cpc' = "failed" /\ c_closed' = TRUE
            /\ UNCHANGED <<c_dealer, final_result, c_r>>
       ELSE IF FALSE
       THEN /\ c_dealer' = Append(c_dealer, Card(Received.val.rank, Received.val.suit))
            /\ UNCHANGED <<cpc, final_result, c_r, c_closed>>
       ELSE /\ final_result' = Received.val.result
            /\ c_r' = c_r + 1
            /\ cpc' = "for_rounds"
            /\ UNCHANGED <<c_dealer, c_closed>>
    /\ UNCHANGED <<c2s, s_closed, c_rounds, c_player,
                   serverVars, codecVars, rulesVars, deckVars, srvVars, moreVars>>
    /\ c_in' = Append(c_in, Head(s2c))
    /\ UNCHANGED <<c_sent, c_out>>

\* lines 146-155: every NotOver message is a dealer card, the first other one
\* is the round's result
ClientDrain ==
    /\ cpc = "drain"
    /\ s2c # <<>>
    /\ s2c' = Tail(s2c)
    /\ s2c_round' = Tail(s2c_round)
    /\ IF ~Received.ok
       THEN cpc' = "failed" /\ c_closed' = TRUE
            /\ UNCHANGED <<c_dealer, final_result, c_r>>
       ELSE IF Received.val.result = RESULT_NOT_OVER
       THEN /\ c_dealer' = Append(c_dealer, Card(Received.val.rank, Received.val.suit))
            /\ UNCHANGED <<cpc, final_result, c_r, c_closed>>
       ELSE /\ final_result' = Received.val.result
            /\ c_r' = c_r + 1
            /\ cpc' = "for_rounds"
            /\ UNCHANGED <<c_dealer, c_closed>>
    /\ UNCHANGED <<c2s, s_closed, c_rounds, c_player,
                   serverVars, codecVars, rulesVars, deckVars, srvVars, moreVars>>
    /\ c_in' = Append(c_in, Head(s2c))
    /\ UNCHANGED <<c_sent, c_out>>

\* line 60, s.settimeout(10.0): a read with nothing to read times out and the
\* exception leaves main, closing the socket.  The server's own steps take far
\* less than the timeout, so it passes only while the server is itself waiting
\* for the client.
ClientTimeout ==
    /\ cpc \in {"recv_initial", "recv_hit", "drain"}
    /\ s2c = <<>>
    /\ spc = "recv_decision" /\ c2s = <<>>
    /\ cpc' = "failed"
    /\ c_closed' = TRUE
    /\ UNCHANGED <<c2s, s2c, s2c_round, s_closed, c_rounds, c_r, c_player, c_dealer,
                   final_result, serverVars, codecVars, rulesVars, deckVars, srvVars, moreVars>>
    /\ UNCHANGED <<c_sent, c_in, c_out>>

(* --------------- a peer that is not this repository's client --------------- *)

\* The server accepts any TCP peer.  Such a peer writes whole frames of
\* REQUEST_LEN and PAYLOAD_CLIENT_LEN bytes whenever it likes, well-formed or
\* not, never reads, and closes whenever it likes.
PeerRounds == {1, 2}
PeerHandshakes ==
    {build_request(n, TEAMNAME).val : n \in PeerRounds}
        \cup {[build_request(1, TEAMNAME).val EXCEPT ![5] = TYPE_PAYLOAD]}
PeerDecisions ==
    {build_payload_client(Hittt).val, build_payload_client(Stand).val,
     MAGIC_COOKIE \o <<TYPE_PAYLOAD>> \o <<104, 105, 116, 116, 116>>}

\* handle_client line 113 reads whatever REQUEST_LEN bytes arrive first
PeerRequest ==
    /\ cpc = "send_request"
    /\ \E h \in PeerHandshakes : c2s' = Append(c2s, h)
    /\ cpc' = "peer"
    /\ UNCHANGED <<s2c, s2c_round, c_closed, s_closed, c_rounds, c_r, c_player, c_dealer,
                   final_result, c_sent, c_in, c_out, serverVars, codecVars, rulesVars, deckVars, srvVars, moreVars>>

\* play_one_round line 62 reads whatever PAYLOAD_CLIENT_LEN bytes arrive next
PeerSend ==
    /\ cpc = "peer"
    /\ c_sent < MaxPeerMsgs
    /\ \E d \in PeerDecisions : c2s' = Append(c2s, d)
    /\ c_sent' = c_sent + 1
    /\ UNCHANGED <<s2c, s2c_round, c_closed, s_closed, cpc, c_rounds, c_r, c_player, c_dealer,
                   final_result, c_in, c_out, serverVars, codecVars, rulesVars, deckVars, srvVars, moreVars>>

\* recv_exact lines 28-30: after the peer's close, recv returns b"" once the
\* queued frames are read
PeerClose ==
    /\ cpc \in {"send_request", "peer"}
    /\ cpc' = "peer_closed"
    /\ c_closed' = TRUE
    /\ UNCHANGED <<c2s, s2c, s2c_round, s_closed, c_rounds, c_r, c_player, c_dealer,
                   final_result, c_sent, c_in, c_out, serverVars, codecVars, rulesVars, deckVars, srvVars, moreVars>>

(* --------------- a server that is not this repository's server --------------- *)

\* The client connects to whatever server's offer it received.  Such a server
\* sends well-formed Card/Result messages of its own choosing, one at a time,
\* and reads what the client writes; the client's steps depend only on the
\* order of the messages it reads.
ForeignMsgs ==
    {CardMsg(RESULT_NOT_OVER, Card(1, "S")), CardMsg(RESULT_NOT_OVER, Card(5, "S")),
     CardMsg(RESULT_LOSS, Card(5, "S")), CardMsg(RESULT_WIN, Card(1, "S"))}

\* recv_server_payload line 37: the next PAYLOAD_SERVER_LEN bytes that arrive
ForeignSend ==
    /\ cpc \in {"for_rounds", "recv_initial", "turn", "recv_hit", "drain"}
    /\ s2c = <<>>
    /\ f_sent < MaxForeignMsgs
    /\ \E m \in ForeignMsgs : s2c' = <<m>>
    /\ s2c_round' = <<0>>
    /\ f_sent' = f_sent + 1
    /\ UNCHANGED <<c2s, c_closed, s_closed, serverVars, clientVars, codecVars,
                   rulesVars, deckVars, srvVars, bcastVars, discVars, lateVars>>

\* the server reads the request or a Decision (sendall of lines 64 and
\* gameplay.py 32 has delivered it)
ForeignRead ==
    /\ cpc # "send_request"
    /\ c2s # <<>>
    /\ c2s' = Tail(c2s)
    /\ UNCHANGED <<s2c, s2c_round, c_closed, s_closed, serverVars, clientVars,
                   codecVars, rulesVars, deckVars, srvVars, moreVars>>

\* gameplay.py 22-24 and main.py 60: the read raises, socket.timeout when
\* nothing arrives in time or ConnectionError at the end of the stream; the
\* exception leaves main and the with-block closes the socket
ClientRecvRaises ==
    /\ cpc \in {"recv_initial", "recv_hit", "drain"}
    /\ s2c = <<>>
    /\ cpc' = "failed"
    /\ c_closed' = TRUE
    /\ UNCHANGED <<c2s, s2c, s2c_round, s_closed, c_rounds, c_r, c_player, c_dealer,
                   final_result, c_sent, c_in, c_out, serverVars, codecVars,
                   rulesVars, deckVars, srvVars, moreVars>>

ClientNext ==
    \/ ClientRequest
    \/ ClientForRounds
    \/ ClientRecvInitial
    \/ ClientTurn
    \/ ClientRecvHit
    \/ ClientDrain
    \/ ClientRecvRaises
    \/ ForeignSend
    \/ ForeignRead

---------------------------------------------------------------------------
(* The server process: src/server/main.py and one handle_client per thread *)

\* A thread's step runs from one recv_exact to the next: between two reads
\* handle_client and play_one_round touch only their arguments and locals.

\* handle_client returns (lines 125-129): conn is closed, the locals are gone
Returned(r, e) ==
    [IdleRec EXCEPT !.pc = "closed", !.err = e, !.nsent = r.nsent]

\* play_one_round lines 48-49: the four draws of the initial deal, as
\* <<player, dealer, _cards afterwards>>
Deals(dk) ==
    UNION {UNION {UNION {{<<<<a[1], b[1]>>, <<c[1], d[1]>>, d[2]>> :
                             d \in Deck_draw(c[2])} :
                         c \in Deck_draw(b[2])} :
                  b \in Deck_draw(a[2])} :
           a \in Deck_draw(dk)}

\* play_one_round lines 87-90: the dealer draws while dealer_should_hit, as
\* <<dealer, _cards afterwards>>
RECURSIVE DealerRuns(_, _)
DealerRuns(dl, dk) ==
    IF dealer_should_hit(dl)
    THEN UNION {DealerRuns(Append(dl, x[1]), x[2]) : x \in Deck_draw(dk)}
    ELSE {<<dl, dk>>}

\* handle_client lines 120-121: the next round up to its first read, or the
\* end of the loop
NextRound(r) ==
    IF r.round_i < r.rounds
    THEN {[r EXCEPT !.pc = "recv_decision", !.player = x[1], !.dealer = x[2],
                    !.deck = x[3]] : x \in Deals(r.deck)}
    ELSE {Returned(r, "none")}

\* handle_client lines 113-118, then the loop
AfterRequest(r) ==
    LET req == parse_request(Head(r.inbox))
    IN  IF ~req.ok THEN {Returned(r, req.err)}
        ELSE NextRound([r EXCEPT !.inbox = Tail(r.inbox),
                                 !.rounds = req.val.rounds,
                                 !.deck = Deck_init])

\* play_one_round lines 62-107 from the Decision just read to the round's end
\* or to the next read
AfterDecision(r) ==
    LET dec == parse_payload_client(Head(r.inbox))
        r1 == [r EXCEPT !.inbox = Tail(r.inbox)]
    IN  IF ~dec.ok THEN {Returned(r, dec.err)}
        ELSE IF dec.val.decision = Hittt
        THEN UNION {LET r2 == [r1 EXCEPT !.player = Append(r.player, x[1]),
                                         !.deck = x[2]]
                    IN  IF is_bust(r2.player)
                        THEN NextRound([r2 EXCEPT !.round_i = r.round_i + 1])
                        ELSE {r2} : x \in Deck_draw(r.deck)}
        ELSE IF dec.val.decision = Stand
        THEN UNION {NextRound([r1 EXCEPT !.dealer = y[1], !.deck = y[2],
                                         !.round_i = r.round_i + 1]) :
                    y \in DealerRuns(r.dealer, r.deck)}
        ELSE {Returned(r, "ProtocolError")}

\* the thread's locals after its next step
ThreadSteps(r) ==
    IF r.inbox = <<>> THEN {Returned(r, "ConnectionError")}
    ELSE LET ok == IF r.pc = "recv_request" THEN parse_request(Head(r.inbox)).ok
                   ELSE parse_payload_client(Head(r.inbox)).ok
             after == IF r.pc = "recv_request" THEN AfterRequest(r)
                      ELSE AfterDecision(r)
             \* sendall to a peer that has closed may raise OSError
             sends == ok /\ (r.pc = "recv_decision" \/ Head(r.inbox)[6] > 0)
         IN  after \cup (IF r.eof /\ sends THEN {Returned(r, "OSError")} ELSE {})

\* every session draws from one module-level deck
WithLocalsSharedDeck(ts, i, r) ==
    [k \in DOMAIN ts |-> IF k = i THEN r ELSE [ts[k] EXCEPT !.deck = r.deck]]

\* handle_client(conn, addr): deck, the hands and i are locals of the call
WithLocals(ts, i, r) == [ts EXCEPT ![i] = r]

\* server/main.py lines 48-54: accept() returns a connection and a daemon
\* thread is started on handle_client
Accept(i) ==
    /\ accepting
    /\ th[i].pc = "idle"
    /\ th' = WithLocals(th, i, [th[i] EXCEPT !.pc = "recv_request"])
    /\ UNCHANGED <<accepting, moreVars, codecVars, rulesVars, deckVars, sessionVars>>

\* the first frame of a connection: a request for ConnRounds rounds, or one
\* whose type byte is wrong
ConnRounds == 2
ConnHandshakes ==
    {build_request(ConnRounds, TEAMNAME).val,
     [build_request(ConnRounds, TEAMNAME).val EXCEPT ![5] = TYPE_PAYLOAD]}

\* the frames written so far on the connections S
RECURSIVE FramesSent(_)
FramesSent(S) ==
    IF S = {} THEN 0
    ELSE LET k == CHOOSE k \in S : TRUE IN th[k].nsent + FramesSent(S \ {k})

\* the peer of connection i writes a frame: a handshake first, Decisions after
ConnSend(i) ==
    /\ th[i].pc \in {"recv_request", "recv_decision"}
    /\ ~th[i].eof
    /\ FramesSent(Conns) < MaxFrames
    /\ \E f \in (IF th[i].nsent = 0 THEN ConnHandshakes ELSE PeerDecisions) :
          th' = [th EXCEPT ![i].inbox = Append(@, f), ![i].nsent = @ + 1]
    /\ UNCHANGED <<accepting, moreVars, codecVars, rulesVars, deckVars, sessionVars>>

\* the peer of connection i closes its socket
ConnClose(i) ==
    /\ th[i].pc \in {"recv_request", "recv_decision"}
    /\ ~th[i].eof
    /\ th' = [th EXCEPT ![i].eof = TRUE]
    /\ UNCHANGED <<accepting, moreVars, codecVars, rulesVars, deckVars, sessionVars>>

\* thread i returns from recv_exact and runs to its next read or to its end
ThreadStep(i) ==
    /\ th[i].pc \in {"recv_request", "recv_decision"}
    /\ th[i].inbox # <<>> \/ th[i].eof
    /\ \E r \in ThreadSteps(th[i]) : th' = WithLocals(th, i, r)
    /\ UNCHANGED <<accepting, moreVars, codecVars, rulesVars, deckVars, sessionVars>>

ServerNext ==
    \E i \in Conns : Accept(i) \/ ConnSend(i) \/ ConnClose(i) \/ ThreadStep(i)

---------------------------------------------------------------------------
(* The advertiser: src/server/broadcaster.py, started by src/server/main.py *)

\* what ifconfig prints, block by block: the interface name, its inet address
\* and its broadcast address, "" where the block has none
IfBlock(iface, ip, bcast) == [iface |-> iface, ip |-> ip, bcast |-> bcast]
IfconfigOutputs ==
    {<<>>,
     <<IfBlock("lo0", "127.0.0.1", "")>>,
     <<IfBlock("lo0", "127.0.0.1", ""), IfBlock("utun0", "", "")>>,
     <<IfBlock("en1", "10.0.0.7", "10.0.0.255")>>,
     <<IfBlock("lo0", "127.0.0.1", ""), IfBlock("en1", "10.0.0.7", "10.0.0.255"),
       IfBlock("en0", "192.168.1.5", "192.168.1.255")>>}

\* _parse_ifconfig_ipv4, lines 24-45: the blocks with a name, an inet address
\* and a broadcast address
RECURSIVE parse_ifconfig_ipv4(_)
parse_ifconfig_ipv4(blocks) ==
    IF blocks = <<>> THEN <<>>
    ELSE LET b == Head(blocks)
         IN  (IF b.iface = "" \/ b.ip = "" \/ b.bcast = "" THEN <<>>
              ELSE <<<<b.iface, b.ip, b.bcast>>>>) \o parse_ifconfig_ipv4(Tail(blocks))

\* with no interface found, the limited broadcast address is used
pick_primary_iface_default(ifaces) ==
    IF \E k \in 1..Len(ifaces) : ifaces[k][1] = "en0"
    THEN ifaces[CHOOSE k \in 1..Len(ifaces) :
                    ifaces[k][1] = "en0" /\ \A j \in 1..(k - 1) : ifaces[j][1] # "en0"]
    ELSE IF ifaces # <<>> THEN ifaces[1] ELSE <<"any", "0.0.0.0", "255.255.255.255">>

\* _pick_primary_iface: en0 if present, else the first, else None (<<>>)
pick_primary_iface(ifaces) ==
    IF \E k \in 1..Len(ifaces) : ifaces[k][1] = "en0"
    THEN ifaces[CHOOSE k \in 1..Len(ifaces) :
                    ifaces[k][1] = "en0" /\ \A j \in 1..(k - 1) : ifaces[j][1] # "en0"]
    ELSE IF ifaces # <<>> THEN ifaces[1] ELSE <<>>

\* time.sleep(1.0): over when the interval has run out
SleepOver(flag, left) == left = 0

\* stop_event.wait(1.0): over when the flag is set or the interval has run out
WaitOver(flag, left) == flag \/ left = 0

\* lines 63-67: ifconfig is run and parsed; any exception gives ifaces = []
Ifconfig ==
    /\ UNCHANGED b_after
    /\ bpc = "ifconfig"
    /\ \/ b_ifaces' = <<>>
       \/ \E out \in IfconfigOutputs : b_ifaces' = parse_ifconfig_ipv4(out)
    /\ bpc' = "pick"
    /\ UNCHANGED <<b_chosen, stop_event, b_sends, b_left, b_raised, discVars, f_sent, lateVars,
                   codecVars, rulesVars, deckVars, sessionVars, srvVars>>

\* lines 69-75: chosen, or return when there is none
Pick ==
    /\ UNCHANGED b_after
    /\ bpc = "pick"
    /\ b_chosen' = pick_primary_iface(b_ifaces)
    /\ bpc' = IF b_chosen' = <<>> THEN "returned" ELSE "bind"
    /\ UNCHANGED <<b_ifaces, stop_event, b_sends, b_left, b_raised, discVars, f_sent, lateVars,
                   codecVars, rulesVars, deckVars, sessionVars, srvVars>>

\* lines 79-84: the socket is made and bound to iface_ip; an OSError here is
\* caught nowhere and ends the thread
Bind ==
    /\ UNCHANGED b_after
    /\ bpc = "bind"
    /\ \/ bpc' = "loop" /\ UNCHANGED b_raised
       \/ bpc' = "returned" /\ b_raised' = TRUE
    /\ UNCHANGED <<b_ifaces, b_chosen, stop_event, b_sends, b_left, discVars, f_sent, lateVars,
                   codecVars, rulesVars, deckVars, sessionVars, srvVars>>

\* line 86: while not stop_event.is_set()
LoopTest ==
    /\ UNCHANGED b_after
    /\ bpc = "loop"
    /\ stop_event \/ Len(b_sends) < MaxSends
    /\ bpc' = IF stop_event THEN "returned" ELSE "send"
    /\ UNCHANGED <<b_ifaces, b_chosen, stop_event, b_sends, b_left, b_raised, discVars,
                   f_sent, lateVars, codecVars, rulesVars, deckVars, sessionVars, srvVars>>

\* a failed send leaves the loop
SendtoFailEnds ==
    /\ b_after' = IF stop_event THEN b_after + 1 ELSE b_after
    /\ bpc = "send"
    /\ \E r \in {"sent", "OSError"} :
          /\ b_sends' = Append(b_sends, r)
          /\ bpc' = IF r = "sent" THEN "wait" ELSE "returned"
    /\ b_left' = WaitTicks
    /\ UNCHANGED <<b_ifaces, b_chosen, stop_event, b_raised, discVars, f_sent, lateVars,
                   codecVars, rulesVars, deckVars, sessionVars, srvVars>>

\* lines 87-101: s.sendto(pkt, dest), OSError caught and logged; then the wait
\* begins
Sendto ==
    /\ b_after' = IF stop_event THEN b_after + 1 ELSE b_after
    /\ bpc = "send"
    /\ \E r \in {"sent", "OSError"} : b_sends' = Append(b_sends, r)
    /\ bpc' = "wait"
    /\ b_left' = WaitTicks
    /\ UNCHANGED <<b_ifaces, b_chosen, stop_event, b_raised, discVars, f_sent, lateVars,
                   codecVars, rulesVars, deckVars, sessionVars, srvVars>>

\* line 101: time passes while the thread is in the wait
Tick ==
    /\ UNCHANGED b_after
    /\ bpc = "wait"
    /\ ~WaitOver(stop_event, b_left)
    /\ b_left' = b_left - 1
    /\ UNCHANGED <<bpc, b_ifaces, b_chosen, stop_event, b_sends, b_raised, discVars,
                   f_sent, lateVars, codecVars, rulesVars, deckVars, sessionVars, srvVars>>

\* a loop that tests the signal only before its first pass: after the wait
\* the next send follows
WaitEndsSendsNext ==
    /\ UNCHANGED b_after
    /\ bpc = "wait"
    /\ WaitOver(stop_event, b_left)
    /\ bpc' = IF Len(b_sends) < MaxSends THEN "send" ELSE "loop"
    /\ UNCHANGED <<b_ifaces, b_chosen, stop_event, b_sends, b_left, b_raised, discVars,
                   f_sent, lateVars, codecVars, rulesVars, deckVars, sessionVars, srvVars>>

\* line 101: the wait returns
WaitEnds ==
    /\ UNCHANGED b_after
    /\ bpc = "wait"
    /\ WaitOver(stop_event, b_left)
    /\ bpc' = "loop"
    /\ UNCHANGED <<b_ifaces, b_chosen, stop_event, b_sends, b_left, b_raised, discVars,
                   f_sent, lateVars, codecVars, rulesVars, deckVars, sessionVars, srvVars>>

\* server/main.py lines 55-59: KeyboardInterrupt leaves the accept loop;
\* stop_event.set() and tcp_listener.close()
Interrupt ==
    /\ UNCHANGED b_after
    /\ accepting
    /\ stop_event' = TRUE
    /\ accepting' = FALSE
    /\ UNCHANGED <<th, bpc, b_ifaces, b_chosen, b_sends, b_left, b_raised, discVars,
                   f_sent, lateVars, codecVars, rulesVars, deckVars, sessionVars>>

\* the steps of the thread running broadcast_offers
BcastThread == Ifconfig \/ Pick \/ Bind \/ LoopTest \/ Sendto \/ Tick \/ WaitEnds

BcastNext == BcastThread \/ Interrupt \/ \E i \in Conns : Accept(i)

---------------------------------------------------------------------------
(* src/client/discovery.py: collect_offers *)

\* max_offers as callers pass it; 20 is the default
MaxOffersArgs == {0, 1, 2, 20}

\* the addresses recvfrom reports: (ip, udp source port)
Addrs == {<<"10.0.0.1", 40000>>, <<"10.0.0.1", 40001>>, <<"10.0.0.2", 40000>>}

\* what arrives on the discovery port: offers of two ports, one offer whose
\* name field has bytes after the first zero, a short datagram, a bad cookie
Datagrams ==
    LET a == build_offer(7000, <<65>>).val
        b == build_offer(7001, <<65>>).val
        c == build_offer(7000, <<65, 0, 66>>).val
    IN  {a, b, c, <<171, 205, 220>>, [a EXCEPT ![1] = 0]}

\* a key that keeps the whole address, source port included
key_with_src_port(offer, addr) == <<addr, offer.tcp_port, offer.server_name>>

\* line 40: key = (ip, offer.tcp_port, offer.server_name)
key(offer, addr) == <<addr[1], offer.tcp_port, offer.server_name>>

\* offers[k] = v on a dict that keeps insertion order: an existing key keeps
\* its place and takes the new value
DictSet(d, k, v) ==
    IF \E i \in 1..Len(d) : d[i].k = k
    THEN [i \in 1..Len(d) |-> IF d[i].k = k THEN [k |-> k, v |-> v] ELSE d[i]]
    ELSE Append(d, [k |-> k, v |-> v])

\* list(offers.values())
DictValues(d) == [i \in 1..Len(d) |-> d[i].v]

\* the clock dt timeouts later; it is not read once the window is over
Later(t, dt) == IF t + dt < WindowTicks THEN t + dt ELSE WindowTicks

\* a loop test that forgets the window
LoopGoesOnCountOnly(t, held, max_offers) == held < max_offers

\* line 28: time.time() < end and len(offers) < max_offers
LoopGoesOn(t, held, max_offers) == t < WindowTicks /\ held < max_offers

\* line 13: the call, and lines 18-25
CollectOffers ==
    /\ dpc = "call"
    /\ \E m \in MaxOffersArgs : d_max' = m
    /\ dpc' = "loop"
    /\ UNCHANGED <<d_time, d_offers, d_recv, d_ret, bcastVars, f_sent, lateVars,
                   codecVars, rulesVars, deckVars, sessionVars, srvVars>>

\* line 28: while time.time() < end and len(offers) < max_offers;
\* lines 43-46 when the test fails
DiscLoopTest ==
    /\ dpc = "loop"
    /\ IF LoopGoesOn(d_time, Len(d_offers), d_max)
       THEN dpc' = "recv" /\ d_ret' = d_ret
       ELSE dpc' = "returned" /\ d_ret' = DictValues(d_offers)
    /\ UNCHANGED <<d_max, d_time, d_offers, d_recv, bcastVars, f_sent, lateVars,
                   codecVars, rulesVars, deckVars, sessionVars, srvVars>>

\* lines 30-32: recvfrom times out after 0.2 s
RecvTimeout ==
    /\ dpc = "recv"
    /\ dpc' = "loop"
    /\ d_time' = Later(d_time, 1)
    /\ UNCHANGED <<d_max, d_offers, d_recv, d_ret, bcastVars, f_sent, lateVars,
                   codecVars, rulesVars, deckVars, sessionVars, srvVars>>

\* lines 30-41: a datagram, at once or within the timeout; one that does not
\* parse is skipped
Recvfrom ==
    /\ dpc = "recv"
    /\ Len(d_recv) < MaxDatagrams
    /\ \E dt \in {0, 1} : d_time' = Later(d_time, dt)
    /\ \E dg \in Datagrams, addr \in Addrs :
        LET offer == parse_offer(dg)
        IN  /\ d_recv' = Append(d_recv, [data |-> dg, addr |-> addr])
            /\ d_offers' = IF offer.ok
                           THEN DictSet(d_offers, key(offer.val, addr),
                                        <<offer.val, addr>>)
                           ELSE d_offers
    /\ dpc' = "loop"
    /\ UNCHANGED <<d_max, d_ret, bcastVars, f_sent, lateVars,
                   codecVars, rulesVars, deckVars, sessionVars, srvVars>>

DiscNext == CollectOffers \/ DiscLoopTest \/ RecvTimeout \/ Recvfrom

SpecDisc == Init /\ [][DiscNext]_vars

\* the client's thread is scheduled and its clock advances
SpecDiscLive == Init /\ [][DiscNext]_vars /\ WF_vars(DiscNext)

---------------------------------------------------------------------------
(* src/client/discovery.py: listen_for_offer *)

\* lines 54-57: the socket, bound, settimeout(timeout_sec)
ListenCall ==
    /\ lpc = "call"
    /\ lpc' = "recv"
    /\ UNCHANGED <<l_time, l_wait, l_recv, l_ret, bcastVars, discVars, f_sent, rxVars, hVars,
                   codecVars, rulesVars, deckVars, sessionVars, srvVars>>

\* line 61: time passes while recvfrom waits; the socket's timeout bounds the
\* wait of each recvfrom call
ListenTick ==
    /\ lpc = "recv"
    /\ l_wait < TimeoutTicks
    /\ l_wait' = l_wait + 1
    /\ l_time' = l_time + 1
    /\ UNCHANGED <<lpc, l_recv, l_ret, bcastVars, discVars, f_sent, rxVars, hVars,
                   codecVars, rulesVars, deckVars, sessionVars, srvVars>>

\* lines 61-85: a datagram; a valid offer is returned with its address, any
\* other is logged and the loop calls recvfrom again
ListenRecvfrom ==
    /\ lpc = "recv"
    /\ Len(l_recv) < MaxDatagrams
    /\ \E dg \in Datagrams, addr \in Addrs :
        LET offer == parse_offer(dg)
        IN  /\ l_recv' = Append(l_recv, [data |-> dg, addr |-> addr])
            /\ IF offer.ok
               THEN lpc' = "returned" /\ l_ret' = <<offer.val, addr>>
                    /\ l_wait' = l_wait
               ELSE lpc' = "recv" /\ l_ret' = l_ret /\ l_wait' = 0
    /\ UNCHANGED <<l_time, bcastVars, discVars, f_sent, rxVars, hVars,
                   codecVars, rulesVars, deckVars, sessionVars, srvVars>>

\* lines 87-88: socket.timeout becomes TimeoutError
ListenTimeout ==
    /\ lpc = "recv"
    /\ l_wait = TimeoutTicks
    /\ lpc' = "TimeoutError"
    /\ UNCHANGED <<l_time, l_wait, l_recv, l_ret, bcastVars, discVars, f_sent, rxVars, hVars,
                   codecVars, rulesVars, deckVars, sessionVars, srvVars>>

ListenNext == ListenCall \/ ListenTick \/ ListenRecvfrom \/ ListenTimeout

SpecListen == Init /\ [][ListenNext]_vars

---------------------------------------------------------------------------
(* src/server/session.py and src/client/gameplay.py: recv_exact *)

\* b"".join(chunks)
RECURSIVE Join(_)
Join(chunks) == IF chunks = <<>> THEN <<>> ELSE Head(chunks) \o Join(Tail(chunks))

\* asking for the whole message on every read
recv_size_whole(n, remaining) == n

\* the argument of sock.recv(remaining)
recv_size(n, remaining) == remaining

\* the call and lines 24-25: the peer sends bytes 1, 2, ... and may close
\* after them
RecvExactCall ==
    /\ xpc = "call"
    /\ \E n \in 0..MaxN, len \in 0..MaxStream, closes \in BOOLEAN :
        /\ x_n' = n
        /\ x_remaining' = n
        /\ x_orig' = [i \in 1..len |-> i]
        /\ x_stream' = [i \in 1..len |-> i]
        /\ x_closed' = closes
    /\ xpc' = "loop"
    /\ UNCHANGED <<x_chunks, x_asked, x_ret, listenVars, hVars, bcastVars, discVars, f_sent,
                   codecVars, rulesVars, deckVars, sessionVars, srvVars>>

\* lines 26-31: one pass with bytes to read; recv returns any number of them
\* from 1 up to the size asked for
RecvChunk ==
    /\ xpc = "loop"
    /\ x_remaining > 0
    /\ x_stream # <<>>
    /\ LET size == recv_size(x_n, x_remaining)
       IN  /\ x_asked' = Append(x_asked, size)
           /\ \E got \in 1..(IF size < Len(x_stream) THEN size ELSE Len(x_stream)) :
                /\ x_chunks' = Append(x_chunks, Take(x_stream, got))
                /\ x_stream' = Drop(x_stream, got)
                /\ x_remaining' = x_remaining - got
    /\ UNCHANGED <<xpc, x_n, x_orig, x_closed, x_ret, listenVars, hVars, bcastVars, discVars,
                   f_sent, codecVars, rulesVars, deckVars, sessionVars, srvVars>>

\* lines 26-29: one pass after the peer's close; recv returns b""
RecvZero ==
    /\ xpc = "loop"
    /\ x_remaining > 0
    /\ x_stream = <<>> /\ x_closed
    /\ x_asked' = Append(x_asked, recv_size(x_n, x_remaining))
    /\ xpc' = "ConnectionError"
    /\ UNCHANGED <<x_n, x_orig, x_stream, x_closed, x_chunks, x_remaining, x_ret,
                   listenVars, hVars, bcastVars, discVars, f_sent,
                   codecVars, rulesVars, deckVars, sessionVars, srvVars>>

\* lines 26 and 32: remaining is 0
RecvExactReturn ==
    /\ xpc = "loop"
    /\ x_remaining <= 0
    /\ x_ret' = Join(x_chunks)
    /\ xpc' = "returned"
    /\ UNCHANGED <<x_n, x_orig, x_stream, x_closed, x_chunks, x_remaining, x_asked,
                   listenVars, hVars, bcastVars, discVars, f_sent,
                   codecVars, rulesVars, deckVars, sessionVars, srvVars>>

RecvExactNext == RecvExactCall \/ RecvChunk \/ RecvZero \/ RecvExactReturn

SpecRecvExact == Init /\ [][RecvExactNext]_vars

---------------------------------------------------------------------------
(* src/server/session.py on the deck of src/common/cards.py: the draws of a
   session's rounds, without the messages *)

\* Deck.draw, lines 22-26, on the list cards, p being the order a refill
\* leaves: <<the card returned, _cards afterwards>>
draw(cards, p) ==
    LET full == IF cards = <<>> THEN Permute(FullDeck, p) ELSE cards
    IN  <<full[Len(full)], SubSeq(full, 1, Len(full) - 1)>>

\* the orders a draw on cards may find after its refill, if it has one
Refills(cards) == IF cards = <<>> THEN Shuffles ELSE {[k \in 1..52 |-> k]}

\* deck.draw() may run: a refill is one more __init__
MayDraw == h_deck # <<>> \/ h_inits < MaxInits

\* handle_client line 118: deck = Deck()
HandsDeck ==
    /\ hpc = "new"
    /\ \E p \in Shuffles : h_deck' = Permute(FullDeck, p)
    /\ h_inits' = 1
    /\ hpc' = "for_rounds"
    /\ UNCHANGED <<h_round, h_player, h_dealer, listenVars, rxVars, bcastVars, discVars,
                   f_sent, codecVars, rulesVars, deckVars, sessionVars, srvVars>>

\* handle_client lines 121-123: the next round, while there is one
HandsForRounds ==
    /\ hpc = "for_rounds"
    /\ h_round < MaxDeckRounds
    /\ hpc' = "deal"
    /\ h_player' = <<>>
    /\ h_dealer' = <<>>
    /\ UNCHANGED <<h_deck, h_inits, h_round, listenVars, rxVars, bcastVars, discVars,
                   f_sent, codecVars, rulesVars, deckVars, sessionVars, srvVars>>

\* play_one_round lines 48-49: the four draws, the player's first
HandsDeal ==
    /\ hpc = "deal"
    /\ MayDraw
    /\ \E p \in Refills(h_deck) :
          LET d == draw(h_deck, p)
          IN  /\ h_deck' = d[2]
              /\ IF Len(h_player) < 2
                 THEN h_player' = Append(h_player, d[1]) /\ UNCHANGED h_dealer
                 ELSE h_dealer' = Append(h_dealer, d[1]) /\ UNCHANGED h_player
    /\ h_inits' = IF h_deck = <<>> THEN h_inits + 1 ELSE h_inits
    /\ hpc' = IF Len(h_player) + Len(h_dealer) = 3 THEN "decision" ELSE "deal"
    /\ UNCHANGED <<h_round, listenVars, rxVars, bcastVars, discVars,
                   f_sent, codecVars, rulesVars, deckVars, sessionVars, srvVars>>

\* lines 66-77: the Decision is Hittt; a bust player ends the round
HandsHit ==
    /\ hpc = "decision"
    /\ MayDraw
    /\ \E p \in Refills(h_deck) :
          LET d == draw(h_deck, p)
          IN  /\ h_deck' = d[2]
              /\ h_player' = Append(h_player, d[1])
              /\ hpc' = IF is_bust(Append(h_player, d[1])) THEN "for_rounds" ELSE "decision"
              /\ h_round' = IF is_bust(Append(h_player, d[1])) THEN h_round + 1 ELSE h_round
    /\ h_inits' = IF h_deck = <<>> THEN h_inits + 1 ELSE h_inits
    /\ UNCHANGED <<h_dealer, listenVars, rxVars, bcastVars, discVars,
                   f_sent, codecVars, rulesVars, deckVars, sessionVars, srvVars>>

\* lines 79-80: the Decision is Stand
HandsStand ==
    /\ hpc = "decision"
    /\ hpc' = "dealer_turn"
    /\ UNCHANGED <<h_deck, h_inits, h_round, h_player, h_dealer, listenVars, rxVars,
                   bcastVars, discVars,
                   f_sent, codecVars, rulesVars, deckVars, sessionVars, srvVars>>

\* lines 87-90: the dealer draws below 17
HandsDealerHit ==
    /\ hpc = "dealer_turn"
    /\ dealer_should_hit(h_dealer)
    /\ MayDraw
    /\ \E p \in Refills(h_deck) :
          LET d == draw(h_deck, p)
          IN  /\ h_deck' = d[2]
              /\ h_dealer' = Append(h_dealer, d[1])
    /\ h_inits' = IF h_deck = <<>> THEN h_inits + 1 ELSE h_inits
    /\ UNCHANGED <<hpc, h_round, h_player, listenVars, rxVars, bcastVars, discVars,
                   f_sent, codecVars, rulesVars, deckVars, sessionVars, srvVars>>

\* lines 87 and 92-107: the dealer's turn is over, the round returns
HandsResolve ==
    /\ hpc = "dealer_turn"
    /\ ~dealer_should_hit(h_dealer)
    /\ hpc' = "for_rounds"
    /\ h_round' = h_round + 1
    /\ UNCHANGED <<h_deck, h_inits, h_player, h_dealer, listenVars, rxVars,
                   bcastVars, discVars,
                   f_sent, codecVars, rulesVars, deckVars, sessionVars, srvVars>>

HandsNext ==
    \/ HandsDeck \/ HandsForRounds \/ HandsDeal \/ HandsHit \/ HandsStand
    \/ HandsDealerHit \/ HandsResolve

SpecHands == Init /\ [][HandsNext]_vars

Next ==
    \/ HandleClient
    \/ ForRounds
    \/ Deal
    \/ SendInitial
    \/ RecvDecision
    \/ Hit
    \/ Bust
    \/ Reveal
    \/ DealerHit
    \/ DealerStand
    \/ Resolve
    \/ SendFails
    \/ Close
    \/ ClientRequest
    \/ ClientForRounds
    \/ ClientRecvInitial
    \/ ClientTurn
    \/ ClientRecvHit
    \/ ClientDrain
    \/ ClientTimeout
    \/ PeerRequest
    \/ PeerSend
    \/ PeerClose

Spec == Init /\ [][Next]_vars
SpecCodec == Init /\ [][CodecNext]_vars
SpecRules == Init /\ [][RulesNext]_vars
SpecDeck == Init /\ [][DeckNext]_vars
SpecServer == Init /\ [][ServerNext]_vars
SpecClient == Init /\ [][ClientNext]_vars
SpecBcast == Init /\ [][BcastNext]_vars
\* the advertiser's thread is scheduled, and time passes
SpecBcastLive == Init /\ [][BcastNext]_vars /\ WF_vars(BcastThread)

---------------------------------------------------------------------------
(* Properties of the wire codec, checked under SpecCodec *)

\* a str of Unicode scalar values: no lone surrogate
IsText(n) == \A i \in 1..Len(n) : ~(n[i] >= 55296 /\ n[i] <= 57343)

\* a name of at most 32 encoded bytes with no zero byte
ShortName(n) ==
    /\ IsText(n)
    /\ \A i \in 1..Len(n) : n[i] # 0
    /\ Len(EncodeUtf8(n)) <= 32

FieldsValid(m, a) ==
    CASE m = "offer" -> a.tcp_port \in 0..65535 /\ ShortName(a.server_name)
      [] m = "request" -> a.rounds \in 0..255 /\ ShortName(a.team_name)
      [] m = "payload_client" -> a.decision \in {Hittt, Stand}
      [] m = "payload_server" ->
            a.result \in {0, 1, 2, 3} /\ a.rank \in 1..13 /\ a.suit \in {"H", "D", "C", "S"}
      [] OTHER -> FALSE

\* the lengths and type tags the wire format fixes
WireLen(m) ==
    CASE m = "offer" -> 39 [] m = "request" -> 38
      [] m = "payload_client" -> 10 [] m = "payload_server" -> 9
WireType(m) ==
    CASE m = "offer" -> 2 [] m = "request" -> 3
      [] m = "payload_client" -> 4 [] m = "payload_server" -> 4
HeaderOk(d, m) ==
    /\ Len(d) >= 5
    /\ SubSeq(d, 1, 4) = <<171, 205, 220, 186>>
    /\ d[5] = WireType(m)

\* a buffer that build_X made, untouched, parsed by parse_X
RoundTripped ==
    cstage = "parsed" /\ origin = "built" /\ ~resized /\ fn = msg

\* C1: for all valid field values (port 0..65535, round count 0..255, a name of
\* at most 32 bytes with no zero byte, both decision tokens, result codes 0..3,
\* ranks 1..13, the four suits), parse_X(build_X(fields)) returns exactly the
\* fields that were built, for each of the four message types.
C1_RoundTrip ==
    (RoundTripped /\ FieldsValid(msg, args)) => parsed = Return(args)

\* C1 witness: an offer whose name has a multi-byte character and fills the
\* 32-byte field exactly has been built and parsed back.
C1_Witness ==
    /\ RoundTripped /\ msg = "offer" /\ FieldsValid(msg, args)
    /\ Len(EncodeUtf8(args.server_name)) = 32
    /\ \E i \in 1..Len(args.server_name) : args.server_name[i] > 127
    /\ parsed.ok

\* C2: each parse function raises ProtocolError, and returns nothing, for every
\* buffer whose length is not exactly 39, 38, 10, 9 bytes for its message type,
\* shorter or longer, whatever the content.
C2_LengthRejected ==
    (cstage = "parsed" /\ Len(data) # WireLen(fn)) => parsed = Raise

\* C2 witness: a buffer one byte too long, with the right header for the parse
\* function it was given to, was rejected.
C2_Witness ==
    /\ cstage = "parsed" /\ fn = "payload_server"
    /\ Len(data) = WireLen(fn) + 1 /\ HeaderOk(data, fn)
    /\ origin = "built"
    /\ parsed = Raise

\* the rank, suit code and result code fields of a 9-byte Card/Result buffer
RawRank(d) == d[7] * 256 + d[8]
RawSuit(d) == d[9]
RawResult(d) == d[6]
CardFieldsInRange(d) ==
    RawRank(d) \in 1..13 /\ RawSuit(d) \in 0..3 /\ RawResult(d) \in {0, 1, 2, 3}

\* C3: parse_payload_server raises ProtocolError for every correctly sized and
\* tagged 9-byte buffer whose rank is outside 1..13, whose suit code is outside
\* 0..3 or whose result code is outside {0,1,2,3}; it returns a value only when
\* all three are in range.
C3_CardFieldsChecked ==
    (cstage = "parsed" /\ fn = "payload_server" /\ Len(data) = 9
        /\ HeaderOk(data, fn) /\ ~CardFieldsInRange(data))
    => parsed = Raise

\* C3 witness: a well-formed 9-byte buffer with rank 65535 and the other two
\* fields in range was rejected.
C3_Witness ==
    /\ cstage = "parsed" /\ fn = "payload_server" /\ Len(data) = 9
    /\ HeaderOk(data, fn)
    /\ RawRank(data) = 65535 /\ RawSuit(data) \in 0..3 /\ RawResult(data) \in 0..3
    /\ parsed = Raise

\* C4: every parse function raises ProtocolError unless the first four bytes are
\* the magic constant 0xabcddcba and the type byte is the one of its message
\* (0x2, 0x3, 0x4, 0x4); a buffer of the right length with another message's
\* type tag is never accepted.
C4_HeaderChecked ==
    (cstage = "parsed" /\ parsed.ok) => HeaderOk(data, fn)

\* C4 witness: a 39-byte buffer with the magic constant and the Handshake
\* Request's type tag was rejected by parse_offer.
C4_Witness ==
    /\ cstage = "parsed" /\ fn = "offer" /\ Len(data) = 39
    /\ SubSeq(data, 1, 4) = <<171, 205, 220, 186>> /\ data[5] = 3
    /\ parsed = Raise

\* C5: parse_payload_client returns a decision only when the 5-byte token is
\* exactly "Hittt" or exactly "Stand", and then returns that token; every other
\* token raises ProtocolError and is never mapped onto a decision.
C5_TokenExact ==
    (cstage = "parsed" /\ fn = "payload_client" /\ parsed.ok)
    => /\ Len(data) = 10
       /\ SubSeq(data, 6, 10) \in {Hittt, Stand}
       /\ parsed.val.decision = SubSeq(data, 6, 10)

\* C5 witness: a well-formed 10-byte buffer whose token is "Hittt" with the
\* high bit of its first byte set was rejected.
C5_Witness ==
    /\ cstage = "parsed" /\ fn = "payload_client" /\ Len(data) = 10
    /\ HeaderOk(data, fn)
    /\ SubSeq(data, 6, 10) = <<200, 105, 116, 116, 116>>
    /\ parsed = Raise

\* the arguments the build functions must refuse
FieldsRefused(m, a) ==
    CASE m = "offer" -> a.tcp_port \notin 0..65535
      [] m = "request" -> a.rounds \notin 0..255
      [] m = "payload_client" -> a.decision \notin {Hittt, Stand}
      [] m = "payload_server" ->
            \/ a.result \notin {0, 1, 2, 3}
            \/ a.rank \notin 1..13
            \/ a.suit \notin {"H", "D", "C", "S"}
      [] OTHER -> FALSE

\* C6: the build functions validate before encoding: a port outside 0..65535, a
\* round count outside 0..255, a decision other than the two tokens, a result
\* code outside {0,1,2,3}, a rank outside 1..13 or a suit outside {H,D,C,S}
\* raises ProtocolError and produces no bytes.
C6_BuildValidates ==
    (origin = "built" /\ FieldsRefused(msg, args))
    => (wire = Raise /\ cstage = "raised" /\ data = <<>>)

\* C6 witness: build_payload_server was called with rank 14 and an otherwise
\* valid result and suit, and raised.
C6_Witness ==
    /\ origin = "built" /\ msg = "payload_server"
    /\ args.rank = 14 /\ args.result \in {0, 1, 2, 3} /\ args.suit \in {"H", "D", "C", "S"}
    /\ wire = Raise

\* the 32-byte name field of a built offer or request
NameField(m, b) == IF m = "offer" THEN SubSeq(b, 8, 39) ELSE SubSeq(b, 7, 38)
NameArg(m, a) == IF m = "offer" THEN a.server_name ELSE a.team_name

\* C7: every accepted build yields exactly 39, 38, 10, 9 bytes; the 32-byte
\* name field is the first 32 bytes of the encoded name when that is longer and
\* the encoded name followed by zero bytes when it is shorter.
C7_FixedLength ==
    (origin = "built" /\ wire.ok)
    => /\ Len(wire.val) = WireLen(msg)
       /\ msg \in {"offer", "request"} =>
            LET enc == EncodeUtf8(NameArg(msg, args))
                field == NameField(msg, wire.val)
            IN  /\ Len(field) = 32
                /\ \A i \in 1..32 :
                      field[i] = IF i <= Len(enc) THEN enc[i] ELSE 0

\* C7 witness: an offer was built from a name whose encoding is longer than 32
\* bytes and is cut inside a multi-byte character.
C7_Witness ==
    /\ origin = "built" /\ msg = "offer" /\ wire.ok
    /\ Len(EncodeUtf8(args.server_name)) > 32
    /\ wire.val[39] >= 192

---------------------------------------------------------------------------
(* Properties of the scoring rules, checked under SpecRules *)

\* what a rank is worth
RankWorth(r) == IF r = 1 THEN 11 ELSE IF r >= 11 THEN 10 ELSE r
RECURSIVE Worth(_)
Worth(h) == IF h = <<>> THEN 0 ELSE RankWorth(Head(h).rank) + Worth(Tail(h))
RanksOf(h) == [i \in 1..Len(h) |-> h[i].rank]

---------------------------------------------------------------------------
(* Properties of the round engine, checked under Spec *)

\* the server is inside play_one_round
InRound == spc \in {"deal", "send_initial", "recv_decision", "hit", "bust",
                    "reveal", "dealer_turn", "resolve"}

\* the nine bytes of a Card message: magic, type 0x4, result code, rank as a
\* big-endian uint16, suit code (H, D, C, S -> 0..3)
WireSuit(su) == CASE su = "H" -> 0 [] su = "D" -> 1 [] su = "C" -> 2 [] su = "S" -> 3
WireCard(res, c) ==
    <<171, 205, 220, 186, 4, res, c.rank \div 256, c.rank % 256, WireSuit(c.suit)>>

\* C9: dealer_should_hit(hand) is true exactly when the hand is worth less than
\* 17, whatever its cards (an ace counts 11): a dealer's hand worth 16 draws, one
\* worth 17 does not, and when the dealer turn ends the dealer's hand is worth at
\* least 17.
C9_DealerPolicy ==
    /\ dealer_should_hit(dealer) <=> (Worth(dealer) < 17)
    /\ spc = "resolve" =>
          /\ Worth(dealer) >= 17
          /\ Len(dealer) > 2 => Worth(SubSeq(dealer, 1, Len(dealer) - 1)) < 17

\* C9 witness: the dealer's two cards were worth 16, a third was drawn, and the
\* dealer turn has ended.
C9_Witness ==
    /\ spc = "resolve"
    /\ Len(dealer) = 3
    /\ Worth(SubSeq(dealer, 1, 2)) = 16

\* C10: at the start of every round the server draws four cards, two for the
\* player and then two for the dealer, and sends exactly three NotOver Card
\* messages: player card 1, player card 2, the dealer's first card.  The dealer's
\* second card is not sent before a Decision has been received.
C10_InitialDeal ==
    /\ spc = "deal" =>
          /\ out_log = <<>> /\ in_log = <<>>
          /\ Len(player) <= 2 /\ Len(dealer) <= 1
          /\ Len(dealer) > 0 => Len(player) = 2
    /\ (InRound /\ spc # "deal") =>
          /\ Len(player) >= 2 /\ Len(dealer) >= 2
          /\ \A k \in 1..Len(out_log) :
                k <= 3 => out_log[k] = WireCard(0, <<player[1], player[2], dealer[1]>>[k])
    /\ spc = "send_initial" => Len(out_log) < 3
    /\ (InRound /\ in_log = <<>>) => Len(out_log) <= 3
    /\ spc = "recv_decision" => Len(out_log) >= 3

\* C10 witness: in the second round the three initial cards are sent, no
\* Decision has been received, and the hidden card differs from the up-card.
C10_Witness ==
    /\ spc = "recv_decision" /\ in_log = <<>> /\ round_i = 1
    /\ Len(out_log) = 3
    /\ dealer[2] # dealer[1]

\* the last element of a non-empty sequence
Last(sq) == sq[Len(sq)]

\* the bytes of the two Decisions
HitBytes == <<171, 205, 220, 186, 4, 72, 105, 116, 116, 116>>
StandBytes == <<171, 205, 220, 186, 4, 83, 116, 97, 110, 100>>

\* the round's messages up to the player's last card: the three initial
\* cards, then one NotOver message for each card the player was dealt on a Hit
PlayerCardsSent ==
    /\ Len(out_log) >= Len(player) + 1
    /\ out_log[1] = WireCard(0, player[1])
    /\ out_log[2] = WireCard(0, player[2])
    /\ out_log[3] = WireCard(0, dealer[1])
    /\ \A k \in 3..Len(player) : out_log[k + 1] = WireCard(0, player[k])

\* the player's hand went over 21 on a Hit
BustOnHit == Len(player) > 2 /\ Worth(player) > 21

Stood == in_log # <<>> /\ Last(in_log) = StandBytes

\* the dealer's part of the round's messages: the hidden card, then every card
\* the dealer drew, right after the player's cards
DealerCardsSent ==
    /\ Len(out_log) >= Len(player) + Len(dealer)
    /\ \A j \in 2..Len(dealer) : out_log[Len(player) + j] = WireCard(0, dealer[j])

\* n is the least number of draws that brings the dealer's hand to 17 or more
LeastDraws(n) ==
    /\ Worth(SubSeq(dealer, 1, 2 + n)) >= 17
    /\ \A m \in 0..(n - 1) : Worth(SubSeq(dealer, 1, 2 + m)) < 17

Resolved == Stood /\ s_err = "none" /\ spc \in {"for_rounds", "close", "closed"}

\* C13: at resolution after the dealer turn the outcome is Win if the dealer's
\* hand is worth more than 21 or the player's is worth strictly more than the
\* dealer's, Loss if the player's is worth strictly less and the dealer is not
\* bust, and Tie if the two values are equal; exactly one outcome is produced.
C13_Outcome ==
    Resolved =>
        LET pv == Worth(player)
            dv == Worth(dealer)
            res == RawResult(Last(out_log))
        IN  /\ res \in {1, 2, 3}
            /\ res = round_result
            /\ (dv > 21 \/ pv > dv) => res = 3
            /\ (pv < dv /\ dv <= 21) => res = 2
            /\ pv = dv => res = 1

\* the positions of the round's messages whose result code is not NotOver
Terminals == {k \in 1..Len(out_log) : RawResult(out_log[k]) # 0}

\* the card a message carries
CardOf(m) == [rank |-> RawRank(m), suit |-> SUITS[RawSuit(m) + 1]]

\* C14: the terminal message of a round carries the rank and suit of the most
\* recently sent NotOver message of the same round: the card that bust the
\* player, otherwise the last dealer card sent (the hidden card when the dealer
\* drew nothing); never a card of an earlier round or one that was not sent.
C14_TerminalCard ==
    \A k \in Terminals :
        /\ k > 3
        /\ RawResult(out_log[k - 1]) = 0
        /\ CardOf(out_log[k]) = CardOf(out_log[k - 1])
        /\ BustOnHit => CardOf(out_log[k]) = Last(player)
        /\ ~BustOnHit => CardOf(out_log[k]) = Last(dealer) /\ Len(dealer) >= 2

\* C14 witness: the second round was resolved without a dealer draw, and its
\* terminal message carries the hidden card, which is not the up-card.
C14_Witness ==
    /\ Resolved /\ round_i = 2
    /\ Len(dealer) = 2 /\ dealer[2] # dealer[1]
    /\ Terminals = {Len(out_log)}
    /\ CardOf(Last(out_log)) = dealer[2]

\* the last round the server started has run to its end without an error
RoundDone == spc \in {"for_rounds", "close", "closed"} /\ s_err = "none" /\ round_i > 0

\* C15: in every round that completes without error the server sends exactly
\* one message whose result code is not NotOver; it is the last message of the
\* round, its code is Tie, Loss or Win and is what play_one_round returns; no
\* NotOver message of the round follows it.
C15_OneTerminal ==
    /\ Terminals \subseteq {Len(out_log)}
    /\ (InRound /\ s_err = "none") => Terminals = {}
    /\ RoundDone =>
          /\ Terminals = {Len(out_log)}
          /\ Len(out_log) >= 5
          /\ RawResult(Last(out_log)) \in {1, 2, 3}
          /\ RawResult(Last(out_log)) = round_result

\* C15 witness: a round ended in a tie after more than the five shortest
\* messages.
C15_Witness ==
    /\ RoundDone
    /\ Len(out_log) > 5
    /\ RawResult(Last(out_log)) = 1 /\ round_result = 1

\* what holds of the session in every state
SessionOrderState ==
    /\ spc = "recv_request" =>
          s2c = <<>> /\ out_log = <<>> /\ in_log = <<>> /\ round_i = 0 /\ ~s_closed
    /\ round_i <= req_rounds
    /\ InRound => round_i < req_rounds
    /\ (spc \in {"close", "closed"} /\ s_err = "none") =>
          /\ round_i = req_rounds
          /\ round_i > 0 => Terminals = {Len(out_log)}
    /\ spc = "close" => ENABLED Close
    /\ s_closed <=> spc = "closed"

\* what holds of every step of the session
SessionOrderStep ==
    /\ spc # "recv_request" => spc' # "recv_request"
    /\ spc = "recv_request" => (out_log' = <<>> /\ s2c' = <<>>)
    /\ round_i' \in {round_i, round_i + 1}
    /\ round_i' = round_i + 1 =>
          /\ InRound /\ spc' = "for_rounds"
          /\ Len(out_log') = Len(out_log) + 1
          /\ RawResult(Last(out_log')) # 0
    /\ (spc' = "deal" /\ spc # "deal") =>
          /\ spc = "for_rounds"
          /\ round_i = 0 \/ Terminals = {Len(out_log)}
    /\ s_closed => (s_closed' /\ Len(s2c') <= Len(s2c) /\ out_log' = out_log)

\* C16: per connection the server reads exactly one Handshake Request, before
\* it sends anything, and then runs the rounds one after another: without an
\* error it completes exactly roundCount rounds (none when roundCount is 0), a
\* round never starts before the previous one has sent its terminal message,
\* and the connection is closed afterwards.
C16_SessionOrder == []SessionOrderState /\ [][SessionOrderStep]_vars

\* C16 witness: a session of at least two rounds has run all its rounds and the
\* connection is closed.
C16_Witness ==
    /\ spc = "closed" /\ s_closed /\ s_err = "none"
    /\ req_rounds >= 2 /\ round_i = req_rounds

---------------------------------------------------------------------------
(* Properties of the deck, checked under SpecDeck *)

\* the 52 cards
AllCards == {[rank |-> r, suit |-> su] : r \in 1..13, su \in {"H", "D", "C", "S"}}
Elems(sq) == {sq[k] : k \in 1..Len(sq)}
NoRepeat(sq) == \A i, j \in 1..Len(sq) : sq[i] = sq[j] => i = j

\* C17: Deck.draw always returns a card: the deck never holds the same (rank,
\* suit) twice, between two reshuffles each of the 52 cards is returned at most
\* once, and a draw on an empty deck first refills the deck with all 52
\* distinct cards and then returns one of them, leaving 51.
C17_DeckDraw ==
    dk_inits > 0 =>
        /\ NoRepeat(dk_cards)
        /\ NoRepeat(dk_out)
        /\ Elems(dk_cards) \cap Elems(dk_out) = {}
        /\ Elems(dk_cards) \cup Elems(dk_out) = AllCards
        /\ Cardinality(AllCards) = 52
        /\ Len(dk_cards) + Len(dk_out) = 52
        /\ dk_out # <<>> => dk_last = dk_out[Len(dk_out)] /\ dk_last \in AllCards
        /\ (dk_inits > 1 /\ Len(dk_out) = 1) => Len(dk_cards) = 51
        /\ (dk_cards # <<>> \/ dk_inits < MaxInits) => ENABLED DeckDraw

\* C17 witness: the deck ran out, a draw refilled it and returned one card,
\* 51 are left.
C17_Witness ==
    /\ dk_inits = 2
    /\ Len(dk_out) = 1 /\ dk_last \in AllCards
    /\ Len(dk_cards) = 51

---------------------------------------------------------------------------
(* Properties of the session's error handling, checked under Spec *)

\* the server takes a step at one of its two reads: it moves on, or a frame
\* leaves the queue
ServerReads ==
    /\ spc \in {"recv_request", "recv_decision"}
    /\ spc' # spc \/ (c2s # <<>> /\ c2s' = Tail(c2s))

\* the frame the server is about to read is not what it must be
BadFrame ==
    /\ c2s # <<>>
    /\ IF spc = "recv_request"
       THEN ~(Len(Head(c2s)) = 38 /\ HeaderOk(Head(c2s), "request"))
       ELSE Head(c2s) \notin {HitBytes, StandBytes}

\* what holds in every state after a ProtocolError or a ConnectionError
ErrorState ==
    /\ s_err \in {"ProtocolError", "ConnectionError"} =>
          /\ spc \in {"close", "closed"}
          /\ Terminals = {}
          /\ round_i < req_rounds \/ (req_rounds = 0 /\ out_log = <<>> /\ deck = <<>>)
    /\ spc = "close" => ENABLED Close
    /\ spc = "closed" => s_closed

\* how an error arises, and what no step does after one
ErrorStep ==
    /\ (ServerReads /\ BadFrame) =>
          (s_err' = "ProtocolError" /\ spc' = "close" /\ c2s' = Tail(c2s))
    /\ (ServerReads /\ c2s = <<>>) =>
          (c_closed /\ s_err' = "ConnectionError" /\ spc' = "close")
    /\ (ServerReads /\ c2s # <<>> /\ ~BadFrame) => s_err' = "none"
    /\ s_err' # s_err =>
          (s_err = "none" /\ spc' = "close" /\ out_log' = out_log /\ s2c' = s2c)
    /\ s_err # "none" =>
          /\ spc' \in {"close", "closed"}
          /\ out_log' = out_log /\ Len(s2c') <= Len(s2c)
          /\ round_i' = round_i
          /\ c2s' = c2s \/ Len(c2s') > Len(c2s)

\* C18: if the handshake or a Decision fails to parse (ProtocolError) or a read
\* returns no bytes (ConnectionError), handle_client sends no further message,
\* starts no further round and closes the connection; the round in progress
\* gets no terminal message.  The connection is closed on every way out of
\* handle_client.
C18_ErrorHandling == []ErrorState /\ [][ErrorStep]_vars

\* C18 witness: the second round was cut short by a Decision that did not
\* parse; the connection is closed and the round's messages are the three
\* initial cards.
C18_Witness ==
    /\ s_err = "ProtocolError" /\ spc = "closed" /\ s_closed
    /\ round_i = 1 /\ req_rounds = 2
    /\ Len(out_log) = 3 /\ Len(in_log) = 1

---------------------------------------------------------------------------
(* Properties of the turn-taking, checked under Spec *)

\* how many of the Decisions read in this round were Hits
RECURSIVE Hits(_)
Hits(lg) == IF lg = <<>> THEN 0
            ELSE (IF Head(lg) = HitBytes THEN 1 ELSE 0) + Hits(Tail(lg))

\* what holds of the two logs in every state
HalfDuplexState ==
    /\ spc = "recv_decision" =>
          /\ Hits(in_log) = Len(in_log)
          /\ Len(out_log) = 3 + Len(in_log)
          /\ Terminals = {}
    /\ spc = "hit" =>
          /\ Hits(in_log) = Len(in_log)
          /\ Len(out_log) = 3 + Len(in_log) - 1
    /\ spc = "bust" => Len(out_log) = 3 + Len(in_log) /\ Terminals = {}
    /\ (InRound /\ spc # "deal") =>
          Len(player) = 2 + Hits(in_log) - (IF spc = "hit" THEN 1 ELSE 0)
    /\ (RoundDone /\ ~Stood) =>
          /\ Len(out_log) = 3 + Len(in_log) + 1
          /\ Worth(player) > 21

\* what holds of every step
HalfDuplexStep ==
    /\ spc = "recv_decision" => (out_log' = out_log /\ Len(s2c') <= Len(s2c))
    /\ (in_log' # in_log /\ in_log' # <<>>) =>
          /\ spc = "recv_decision" /\ c2s # <<>>
          /\ in_log' = Append(in_log, Head(c2s))
          /\ c2s' = Tail(c2s)
    /\ Len(c2s') < Len(c2s) => c2s' = Tail(c2s)
    /\ (spc = "hit" /\ spc' \in {"recv_decision", "bust"}) =>
          /\ Len(out_log') = Len(out_log) + 1
          /\ RawResult(Last(out_log')) = 0
          /\ (spc' = "bust") = (Worth(player') > 21)

\* C20: within a session the exchange is half-duplex: from the moment the
\* server starts waiting for a Decision until it has read a whole one it sends
\* nothing; each Hit is answered by exactly one NotOver card (and the terminal
\* message only when that card busts the player) before the next Decision is
\* read; Decisions are processed one at a time in arrival order.
C20_HalfDuplex == []HalfDuplexState /\ [][HalfDuplexStep]_vars

\* C20 witness: one Hit has been answered by one card and the server waits
\* again, while the next Decision is already queued.
C20_Witness ==
    /\ spc = "recv_decision"
    /\ in_log = <<HitBytes>> /\ Len(out_log) = 4
    /\ c2s # <<>>

---------------------------------------------------------------------------
(* Properties of the server process, checked under SpecServer *)

ThreadReads(j) == th[j].pc \in {"recv_request", "recv_decision"}

\* thread j takes a step: it consumes a frame or leaves its read
ThreadMoves(j) ==
    /\ ThreadReads(j)
    /\ th'[j].pc # th[j].pc \/ Len(th'[j].inbox) < Len(th[j].inbox)

\* what thread j is about to read is a malformed frame or the end of the stream
BadInput(j) ==
    /\ ThreadReads(j)
    /\ IF th[j].inbox = <<>> THEN th[j].eof
       ELSE IF th[j].pc = "recv_request" THEN ~parse_request(Head(th[j].inbox)).ok
       ELSE ~parse_payload_client(Head(th[j].inbox)).ok

\* the accept loop is running, and a session that has ended has no locals left
IsolationState ==
    /\ accepting
    /\ \A i \in Conns : th[i].pc = "closed" => th[i].deck = <<>>

IsolationStep ==
    \A j \in Conns :
        /\ (ThreadMoves(j) /\ BadInput(j)) =>
              /\ th'[j].pc = "closed"
              /\ th'[j].err \in {"ProtocolError", "ConnectionError"}
        /\ (ThreadMoves(j) /\ th'[j].err # "none") =>
              /\ \A i \in Conns \ {j} : th'[i] = th[i]
              /\ accepting'

\* C19: when a session reads a malformed frame or the end of its stream, that
\* session is closed with ProtocolError or ConnectionError; the step on which
\* a session ends in an error leaves the deck, the hands, the round index and
\* the connection of every other session as they were; the accept loop goes
\* on.
C19_Isolation == []IsolationState /\ [][IsolationStep]_vars

\* one session has ended on a malformed frame while the other is in a round
\* and has drawn a hit card
C19_Witness ==
    \E j \in Conns : \E i \in Conns \ {j} :
        /\ th[j].pc = "closed" /\ th[j].err = "ProtocolError"
        /\ th[i].pc = "recv_decision" /\ Len(th[i].player) = 3

---------------------------------------------------------------------------
(* Properties of the client's round driver, checked under Spec *)

\* the client is inside a round, past its three initial reads
ClientPlaying == cpc \in {"turn", "recv_hit", "drain"}

\* the cards carried by the messages of a log
CardsOf(lg) == [k \in 1..Len(lg) |-> CardOf(lg[k])]

InitialReadState ==
    /\ cpc = "recv_initial" =>
          /\ Len(c_in) < 3 /\ c_out = <<>>
          /\ c_player = CardsOf(c_in) /\ c_dealer = <<>>
    /\ ClientPlaying =>
          /\ Len(c_in) >= 3
          /\ SubSeq(c_player, 1, 2) = CardsOf(SubSeq(c_in, 1, 2))
          /\ c_dealer[1] = CardOf(c_in[3])
    /\ (cpc # "send_request" /\ c_out # <<>>) => Len(c_in) >= 3
    \* at its first prompt the client holds the server's player hand and up-card
    /\ (cpc = "turn" /\ c_out = <<>>) =>
          /\ c_player = player /\ c_dealer = <<dealer[1]>>
          /\ Len(c_in) = 3

InitialReadStep ==
    /\ cpc = "recv_initial" =>
          /\ c2s' = c2s \/ c2s' = Tail(c2s)
          /\ cpc' \in {"recv_initial", "turn", "failed"}
          /\ cpc' = "turn" => (Len(c_in) = 2 /\ c_in' = Append(c_in, Head(s2c)))
    /\ (cpc # "send_request" /\ c_out' # c_out /\ c_out' # <<>>) =>
          (Len(c_in) >= 3 /\ c_in' = c_in)

\* C21: in every round the client reads three messages before anything else:
\* while it has read fewer than three it sends nothing and its next step is a
\* read; the first two messages read make its player hand, in order, and the
\* third is its dealer hand's up-card; a Decision is only ever sent with the
\* three of them read, and at its first prompt of the round the client's hands
\* are the server's player hand and the server's dealer up-card.
C21_InitialRead == []InitialReadState /\ [][InitialReadStep]_vars

\* the client is at its first prompt of its second round
C21_Witness == cpc = "turn" /\ c_out = <<>> /\ Len(c_in) = 3 /\ c_r = 1

\* the server is in recv_exact for a Decision with nothing to read and nothing
\* on its way
ServerAwaitsDecision == spc = "recv_decision" /\ c2s = <<>> /\ ~c_closed

\* the client is in recv_server_payload with nothing to read
ClientAwaitsMessage ==
    cpc \in {"recv_initial", "recv_hit", "drain"} /\ s2c = <<>> /\ ~s_closed

\* C22: the server is never blocked waiting for a Decision while the client is
\* blocked waiting for a Card/Result message.
C22_NoDeadlock == ~(ServerAwaitsDecision /\ ClientAwaitsMessage)

\* C23: once the three initial cards are read the client sends a Decision
\* before it reads any further message: it is never in a read after the
\* initial three, and has never read a fourth message, with no Decision sent
\* in the round; a round the client has finished has at least one Decision.
C23_DecisionFirst ==
    /\ cpc \in {"recv_hit", "drain"} => c_out # <<>>
    /\ (cpc # "send_request" /\ Len(c_in) > 3) => c_out # <<>>

\* the client's hand went over 21 on a card it received in reply to a Hit
ClientBustOnHit == Len(c_player) > 2 /\ Worth(c_player) > 21
\* the client has sent Stand in its round
ClientStood == c_out # <<>> /\ Last(c_out) = StandBytes
\* the client's round is over for the player: no more prompts
ClientTurnOver == cpc # "send_request" /\ (ClientBustOnHit \/ ClientStood)

NoDecisionAfterState ==
    /\ \A k \in 1..(Len(c_out) - 1) : c_out[k] = HitBytes
    /\ (ClientPlaying /\ ClientTurnOver) => cpc = "drain"
    /\ ClientBustOnHit =>
          /\ Len(c_out) = Len(c_player) - 2
          /\ Last(c_out) = HitBytes
          /\ Worth(SubSeq(c_player, 1, Len(c_player) - 1)) <= 21
    \* in the drain loop no terminal message has been read yet
    /\ cpc = "drain" => \A k \in 1..Len(c_in) : RawResult(c_in[k]) = 0

NoDecisionAfterStep ==
    /\ ClientTurnOver =>
          /\ c_out' = c_out \/ (c_out' = <<>> /\ cpc = "for_rounds")
          /\ c2s' = c2s \/ c2s' = Tail(c2s)
    /\ (cpc = "drain" /\ cpc' # "drain") =>
          \/ cpc' = "failed"
          \/ /\ cpc' = "for_rounds"
             /\ c_in' = Append(c_in, Head(s2c))
             /\ RawResult(Head(s2c)) # 0
    /\ (cpc = "drain" /\ c_in' # c_in /\ cpc' = "drain") =>
          (c_in' = Append(c_in, Head(s2c)) /\ RawResult(Head(s2c)) = 0)

\* C24: once a card received in reply to a Hit has taken the client's player
\* hand over 21, or once the client has sent Stand, the client sends no further
\* Decision in that round: Stand is only ever the last Decision of a round, a
\* hand that bust on a hit has exactly one Hit per card received and none
\* after; the client is then in its drain loop, where it reads message after
\* message and which it leaves only on reading a message whose result code is
\* not NotOver.
C24_NoDecisionAfter == []NoDecisionAfterState /\ [][NoDecisionAfterStep]_vars

\* a round has ended for the client that bust on its first hit and then read
\* the terminal message
C24_Witness ==
    /\ cpc = "for_rounds" /\ c_r >= 1
    /\ Len(c_player) = 3 /\ Worth(c_player) > 21 /\ Worth(SubSeq(c_player, 1, 2)) <= 21
    /\ c_out = <<HitBytes>> /\ RawResult(Last(c_in)) # 0

\* the client is this repository's client, past its request
RealClient == cpc \in {"for_rounds", "recv_initial", "turn", "recv_hit", "drain",
                       "done", "failed"}
\* the round whose messages out_log and c_in hold
LogRound == IF InRound THEN round_i ELSE round_i - 1
ClientLogRound == IF cpc \in {"for_rounds", "done"} THEN c_r - 1 ELSE c_r
\* the client has finished a round
ClientRoundDone == cpc \in {"for_rounds", "done"} /\ c_r >= 1

\* the messages of lg whose result code is NotOver
RECURSIVE NotOvers(_)
NotOvers(lg) ==
    IF lg = <<>> THEN <<>>
    ELSE (IF RawResult(Head(lg)) = 0 THEN <<Head(lg)>> ELSE <<>>) \o NotOvers(Tail(lg))

\* how many of the round's messages the client read as replies to a Hit
HitReplies == IF Hits(c_out) < Len(c_in) - 3 THEN Hits(c_out) ELSE Len(c_in) - 3

RoundRefinedState ==
    RealClient =>
        \* nothing of an earlier round is still to be read
        /\ \A k \in 1..Len(s2c_round) : s2c_round[k] >= ClientLogRound
        \* read so far, then in flight, is what the server sent for the round
        /\ (LogRound = ClientLogRound /\ cpc # "failed") => c_in \o s2c = out_log
        /\ ClientRoundDone =>
              /\ RawResult(Last(c_in)) # 0
              /\ \A k \in 1..(Len(c_in) - 1) : RawResult(c_in[k]) = 0
              /\ final_result = RawResult(Last(c_in))
              /\ final_result = round_result
              /\ round_i = c_r
              /\ LogRound = ClientLogRound => (c_in = out_log /\ c_player = player)
              /\ (LogRound = ClientLogRound /\ ClientStood) => c_dealer = dealer
        /\ (Len(c_in) >= 3 /\ cpc # "failed") =>
              /\ c_player = CardsOf(SubSeq(c_in, 1, 2))
                                \o CardsOf(SubSeq(c_in, 4, 3 + HitReplies))
              /\ c_dealer = <<CardOf(c_in[3])>>
                                \o CardsOf(NotOvers(SubSeq(c_in, 4 + HitReplies, Len(c_in))))

RoundRefinedStep ==
    RealClient =>
        \* a message read in a round is one the server sent in that round
        /\ (c_in' # c_in /\ c_in' # <<>>) =>
              /\ c_in' = Append(c_in, Head(s2c))
              /\ Head(s2c_round) = c_r
        \* when the round ends nothing of it is left unread
        /\ c_r' # c_r =>
              /\ c_r' = c_r + 1
              /\ RawResult(Head(s2c)) # 0
              /\ final_result' = RawResult(Head(s2c))
              /\ \A k \in 1..Len(s2c_round') : s2c_round'[k] > c_r

\* C26: in every round the client completes, the result it records is the
\* result code of the one terminal message the server sent in that round, which
\* is what play_one_round returned; the messages the client read in the round
\* are exactly those the server sent in it, in order: each message read carries
\* the round in which it was sent, none of the round is left unread at its end,
\* and none of the next round is read before; the client's player hand is its
\* first two cards and the replies to its Hits, and its dealer hand is the
\* up-card and every NotOver message read after them, which after a Stand is
\* the server's dealer hand.
C26_RoundRefined == []RoundRefinedState /\ [][RoundRefinedStep]_vars

\* the client has finished its second round after a Stand and a dealer draw,
\* while the three initial cards of the third round are already in flight
C26_Witness ==
    /\ cpc = "for_rounds" /\ c_r = 2 /\ ClientStood /\ Len(c_dealer) >= 3
    /\ spc = "recv_decision" /\ round_i = 2 /\ Len(s2c) = 3

---------------------------------------------------------------------------
(* The client against any server, checked under SpecClient *)

\* the k-th message the client read in its round was its reply to a Hit
ReplyToHit(k) == k > 3 /\ k - 3 <= Len(c_out) /\ c_out[k - 3] = HitBytes

\* C25: when the message the client reads in reply to a Hit has a result code
\* other than NotOver, the round ends with it: it is the last message the
\* client reads in that round, the client has left the round, and the result
\* the client holds for the round is that code.
C25_EarlyTerminal ==
    \A k \in 1..Len(c_in) :
        (cpc # "failed" /\ ReplyToHit(k) /\ RawResult(c_in[k]) # 0) =>
            /\ k = Len(c_in)
            /\ cpc \in {"for_rounds", "done"}
            /\ final_result = RawResult(c_in[k])

---------------------------------------------------------------------------
(* Properties of the advertiser, checked under SpecBcast and SpecBcastLive *)

\* broadcast_offers is inside its while loop
InBcastLoop == bpc \in {"loop", "send", "wait"}

RetryState ==
    \* once a send was attempted, only the stop signal ends the loop
    /\ (b_sends # <<>> /\ ~stop_event) => (InBcastLoop /\ ~b_raised)
    /\ b_sends # <<>> => ~b_raised
    \* one send per iteration: in the wait this iteration's send is made
    /\ bpc = "send" => ~b_raised

RetryStep ==
    \* the loop test without the signal leads to a send
    /\ (bpc = "loop" /\ bpc' # "loop" /\ ~stop_event) =>
          (bpc' = "send" /\ b_sends' = b_sends)
    \* the send is attempted once, and failed or not the wait follows
    /\ (bpc = "send" /\ bpc' # "send") =>
          /\ bpc' = "wait"
          /\ Len(b_sends') = Len(b_sends) + 1
          /\ SubSeq(b_sends', 1, Len(b_sends)) = b_sends
    \* the wait leads back to the loop test, with no send in between
    /\ (bpc = "wait" /\ bpc' # "wait") => (bpc' = "loop" /\ b_sends' = b_sends)
    /\ b_sends' # b_sends => bpc = "send"

\* C27: without the stop signal every pass of the loop of broadcast_offers
\* attempts exactly one send: the loop test is followed by the send, the send by
\* the wait and the wait by the loop test, whether the send failed with OSError
\* or not; after any number of failed sends, and while the signal is not set,
\* the advertiser is still in its loop and no exception has left it.
C27_RetryAfterFailure == []RetryState /\ [][RetryStep]_vars

\* two sends have failed and the third is about to be attempted
C27_Witness ==
    /\ b_sends = <<"OSError", "OSError">> /\ bpc = "send" /\ ~stop_event

StopStep ==
    \* with the signal set the wait does not go on: no tick passes in it
    /\ (bpc = "wait" /\ stop_event) => (b_left' = b_left /\ bpc' \in {"wait", "loop"})
    \* the loop test that sees the signal returns
    /\ (bpc = "loop" /\ stop_event) => bpc' \in {"loop", "returned"}
    /\ bpc = "returned" => bpc' = "returned"
    /\ stop_event => stop_event'
    \* with the signal set at most the send already begun is made
    /\ (stop_event /\ b_sends' # b_sends) => (bpc = "send" /\ bpc' = "wait")

\* C28: once the stop signal is set broadcast_offers returns: a wait under way
\* ends without another tick of its interval, the loop test that follows
\* leaves the loop, nothing is entered again after that, and the function
\* returns in the end.
C28_StopsPromptly == [][StopStep]_vars /\ (stop_event ~> bpc = "returned")

\* the advertiser has returned on the signal after a send, with part of its
\* last wait left over
C28_Witness == stop_event /\ bpc = "returned" /\ b_sends # <<>> /\ b_left = WaitTicks

\* discovery is over and gave no interface: ifaces = []
NoIface == bpc # "ifconfig" /\ b_ifaces = <<>>

NoIfaceState ==
    NoIface =>
        /\ bpc \in {"pick", "returned"}
        /\ b_sends = <<>>
        /\ ~b_raised
        /\ b_chosen = <<>>
        \* the accept loop runs on until it is interrupted
        /\ ~stop_event => accepting

NoIfaceStep ==
    /\ (NoIface /\ bpc = "pick" /\ bpc' # "pick") => bpc' = "returned"
    \* no step of the advertiser touches the accept loop
    /\ bpc' # bpc => (accepting' = accepting /\ th' = th)

\* C29: when running ifconfig fails or gives no interface with a broadcast
\* address, broadcast_offers returns from its test of chosen: it sends no
\* datagram and no exception leaves it; the accept loop of main is not touched
\* by it and goes on accepting connections.
C29_NoInterface == []NoIfaceState /\ [][NoIfaceStep]_vars

\* the advertiser has returned for want of an interface and a connection has
\* been accepted
C29_Witness ==
    /\ NoIface /\ bpc = "returned" /\ accepting
    /\ \E i \in Conns : th[i].pc = "recv_request"

---------------------------------------------------------------------------
(* the list collect_offers returns *)

\* the triple of a returned entry (offer, (ip, udp_src_port))
EntryTriple(e) == <<e[2][1], e[1].tcp_port, e[1].server_name>>

\* the triple of a received datagram that is a valid offer
DatagramTriple(r) ==
    <<r.addr[1], parse_offer(r.data).val.tcp_port, parse_offer(r.data).val.server_name>>

ValidReceived == {n \in 1..Len(d_recv) : parse_offer(d_recv[n].data).ok}

EntriesOf(t) == {i \in 1..Len(d_ret) : EntryTriple(d_ret[i]) = t}

\* C30: the list collect_offers returns has no two entries with the same
\* (source ip, advertised port, server name); every valid offer recvfrom
\* returned during the window has an entry with its triple; and a triple
\* received three times (or any number of times) has exactly one entry.
C30_OnePerTriple ==
    dpc = "returned" =>
        /\ \A i, j \in 1..Len(d_ret) :
              EntryTriple(d_ret[i]) = EntryTriple(d_ret[j]) => i = j
        /\ \A n \in ValidReceived : EntriesOf(DatagramTriple(d_recv[n])) # {}
        /\ \A n \in ValidReceived :
              Cardinality(EntriesOf(DatagramTriple(d_recv[n]))) = 1

\* three valid datagrams of one triple, not all from the same source port and
\* not all the same bytes, were received and one entry is returned
C30_Witness ==
    /\ dpc = "returned"
    /\ Len(d_recv) = 3
    /\ ValidReceived = {1, 2, 3}
    /\ \A n \in 1..3 : DatagramTriple(d_recv[n]) = DatagramTriple(d_recv[1])
    /\ d_recv[1].addr # d_recv[2].addr
    /\ d_recv[1].data # d_recv[3].data
    /\ Len(d_ret) = 1

---------------------------------------------------------------------------
(* collect_offers ends *)

Malformed(dg) == ~parse_offer(dg).ok

\* returned only with the window over or max_offers offers held, and with no
\* more than max_offers entries
CollectEndsState ==
    dpc = "returned" =>
        /\ d_time >= WindowTicks \/ Len(d_offers) >= d_max
        /\ Len(d_ret) <= d_max

\* recvfrom is called only inside the window and below max_offers; a
\* malformed datagram changes no offer and leads back to the loop test; and
\* the function returns at the first loop test that finds the window over or
\* max_offers offers held
CollectEndsStep ==
    /\ dpc = "loop" /\ dpc' = "recv" => d_time < WindowTicks /\ Len(d_offers) < d_max
    /\ dpc = "loop" /\ (d_time >= WindowTicks \/ Len(d_offers) >= d_max)
         => dpc' \in {"loop", "returned"}
    /\ Len(d_recv') > Len(d_recv) /\ Malformed(d_recv'[Len(d_recv')].data)
         => d_offers' = d_offers /\ dpc' = "loop"

\* C31: collect_offers always terminates, whatever arrives: it returns once
\* the window is over or max_offers offers are held, whichever is first,
\* never with more than max_offers entries, and a malformed datagram is
\* skipped and collection continues.
C31_CollectTerminates ==
    /\ []CollectEndsState
    /\ [][CollectEndsStep]_vars
    /\ <>(dpc = "returned")

\* returned before the window was over, holding max_offers = 2 offers, the
\* second one stored after a malformed datagram was skipped
C31_Witness ==
    /\ dpc = "returned" /\ d_time < WindowTicks
    /\ d_max = 2 /\ Len(d_ret) = 2
    /\ Len(d_recv) = 3
    /\ Malformed(d_recv[2].data) /\ ~Malformed(d_recv[3].data)

---------------------------------------------------------------------------
(* listen_for_offer and its timeout *)

\* C32: listen_for_offer is bounded by its timeout counted from the call: it
\* is not still listening once more than the timeout has passed since the
\* call, it raises TimeoutError only when no valid offer was received, and
\* what it returns is the first valid offer received, the datagrams before it
\* all malformed.
C32_ListenBounded ==
    /\ lpc = "recv" => l_time <= TimeoutTicks
    /\ lpc = "TimeoutError" =>
          /\ \A n \in 1..Len(l_recv) : Malformed(l_recv[n].data)
          /\ l_time <= TimeoutTicks
    /\ lpc = "returned" =>
          /\ l_recv # <<>>
          /\ \A n \in 1..(Len(l_recv) - 1) : Malformed(l_recv[n].data)
          /\ l_ret = <<parse_offer(Last(l_recv).data).val, Last(l_recv).addr>>

---------------------------------------------------------------------------
(* recv_exact *)

\* the bytes read before the k-th call of sock.recv
ReadBefore(k) == Len(Join(SubSeq(x_chunks, 1, k - 1)))

\* what is returned is n bytes, the chunks in order, which are the first n
\* bytes sent, and the bytes after them are still in the stream; no read asks
\* for more than is missing; an error is raised only after a read of zero bytes
RecvExactState ==
    /\ xpc = "returned" =>
          /\ Len(x_ret) = x_n
          /\ x_ret = Join(x_chunks)
          /\ x_ret = SubSeq(x_orig, 1, x_n)
          /\ x_stream = SubSeq(x_orig, x_n + 1, Len(x_orig))
    /\ \A k \in 1..Len(x_asked) : x_asked[k] <= x_n - ReadBefore(k)
    /\ Join(x_chunks) \o x_stream = x_orig
    /\ xpc = "ConnectionError" => Len(x_asked) = Len(x_chunks) + 1

\* a read that returns zero bytes raises ConnectionError at once, whatever was
\* received before; any other read adds its bytes
RecvExactStep ==
    /\ Len(x_asked') > Len(x_asked) /\ x_chunks' = x_chunks
         => xpc' = "ConnectionError" /\ x_stream' = x_stream
    /\ xpc = "loop" /\ x_remaining > 0 /\ x_stream = <<>> /\ x_closed
         => xpc' = "ConnectionError"

\* C33: recv_exact(sock, n) returns exactly n bytes, the chunks read in
\* order, for every split of the stream into partial reads; it never asks for
\* more than the bytes still missing, so the bytes of the next message stay in
\* the stream; and it raises ConnectionError as soon as a read returns zero
\* bytes, also with part of the message received.
C33_RecvExact == []RecvExactState /\ [][RecvExactStep]_vars

\* three bytes returned from three partial reads, two more bytes left unread
C33_Witness ==
    /\ xpc = "returned" /\ x_n = 3 /\ Len(x_chunks) = 3
    /\ x_ret = <<1, 2, 3>> /\ x_stream = <<4, 5>>

---------------------------------------------------------------------------
(* the session's deck *)

\* Deck() after a request that parsed
DeckCreated ==
    /\ spc = "recv_request" /\ spc' = "for_rounds"
    /\ deck' = Deck_init

\* one draw inside a round: a card leaves the deck, or, the deck being empty,
\* a card leaves a new full deck
DeckDrawn ==
    /\ spc \in {"deal", "hit", "dealer_turn"}
    /\ LET from == IF deck = <<>> THEN Deck_init ELSE deck
       IN  \E i \in 1..Len(from) : deck' = RemoveAt(from, i)

\* there is no deck before the handshake
OneDeckState == spc = "recv_request" => deck = <<>>

\* the deck changes only by its creation and by draws; the creation happens
\* once, on leaving the handshake; the end of a round and the loop between two
\* rounds leave the deck as it is; the deck grows only by a draw on an empty
\* deck
OneDeckStep ==
    /\ deck' # deck => DeckCreated \/ DeckDrawn
    /\ spc' = "recv_request" => spc = "recv_request"
    /\ spc = "recv_request" /\ spc' = "for_rounds" => DeckCreated
    /\ round_i' # round_i \/ spc = "for_rounds" => deck' = deck
    /\ Len(deck') >= Len(deck) /\ deck' # deck => DeckCreated \/ deck = <<>>

\* C34: one Deck is created per session, after a valid handshake, and the
\* rounds draw only from it: nothing changes it between the end of a round
\* and the first draw of the next, and it is refilled only by a draw on an
\* empty deck.
C34_OneDeck == []OneDeckState /\ [][OneDeckStep]_vars

\* the second round has made its first draw from the one card the first round
\* left of a deck refilled within that round
C34_Witness ==
    /\ spc = "deal" /\ round_i = 1
    /\ Len(player) = 1 /\ dealer = <<>>
    /\ deck = <<>>

---------------------------------------------------------------------------
(* the two views of a round *)

\* the client has completed a round and the server has not yet dealt the next
BothAtRoundEnd == RealClient /\ ClientRoundDone /\ LogRound = ClientLogRound

---------------------------------------------------------------------------
(* the result sent to a bust player *)

\* C36: when the last message the server has sent in a round is terminal
\* with result code Win or Tie, the player's hand in that round is worth at
\* most 21.
C36_NoWinWhenBust ==
    (out_log # <<>> /\ RawResult(Last(out_log)) \in {RESULT_WIN, RESULT_TIE})
        => Worth(player) <= 21

---------------------------------------------------------------------------
(* the cards of one round *)

\* C37: within a round no card is dealt twice: the cards of the player's
\* hand and of the dealer's hand together are pairwise different, whatever
\* the deck held when the round began.
C37_NoCardTwice == NoRepeat(h_player \o h_dealer)

---------------------------------------------------------------------------
(* the cards a round sends *)

IsPrefix(a, b) == Len(a) <= Len(b) /\ a = SubSeq(b, 1, Len(a))

\* the cards of the round's NotOver messages, in the order sent
SentCards == CardsOf(NotOvers(out_log))

\* the round's draws in the order they are to be sent: the dealer's second
\* card after the player's hit cards
SendOrder == Take(player, 2) \o Take(dealer, 1) \o Drop(player, 2) \o Drop(dealer, 1)

\* the round has sent its terminal message
TerminalSent == out_log # <<>> /\ RawResult(Last(out_log)) # 0

---------------------------------------------------------------------------
(* the sends after the stop signal *)

\* at most one sendto is made with the signal set, and a thread about to
\* send has passed the loop test; a returned broadcast_offers has sent all it
\* will
LastSendState ==
    /\ b_after <= 1
    /\ b_after <= Len(b_sends)
    /\ ~stop_event => b_after = 0

\* the send state is entered only from the loop test and only with the signal
\* not set; a loop test with the signal set returns; after that, and in any
\* state but the send, nothing is sent; the signal once set stays set
LastSendStep ==
    /\ bpc' = "send" /\ bpc # "send" => bpc = "loop" /\ ~stop_event
    /\ bpc = "loop" /\ stop_event /\ bpc' # bpc => bpc' = "returned"
    /\ bpc # "send" => b_sends' = b_sends
    /\ bpc = "returned" => bpc' = "returned"
    /\ stop_event => stop_event'

\* C39: however the advertiser's steps interleave with the setting of the
\* stop signal, broadcast_offers makes at most one send after the signal is
\* set, the one that had already passed the loop test, and none after a loop
\* test has seen the signal.
C39_LastSend == []LastSendState /\ [][LastSendStep]_vars

\* the signal was set between the loop test and the send: one send was made
\* after it, and the function has returned
C39_Witness ==
    /\ bpc = "returned" /\ stop_event
    /\ b_after = 1 /\ Len(b_sends) = 2

=============================================================================
